---- MODULE Spec2Model ----
(***************************************************************************)
(* Serverless form backend: contact and waitlist request handlers over a   *)
(* document store (Cosmos DB) and an email gateway (Azure Communication    *)
(* Services), with the email service's retry-with-backoff executor.        *)
(*                                                                         *)
(* Every await of the TypeScript code is an interleaving point: an action  *)
(* of the model is the completion of one awaited external call (store      *)
(* query, store write, gateway send, timer) together with all synchronous  *)
(* code that runs up to the next await.                                    *)
(***************************************************************************)
EXTENDS Integers, Sequences, FiniteSets, TLC

\* ------------------------------------------------------------------ bounds

\* Number of requests (HTTP invocations) served in one behaviour of the
\* concurrent specification.
MaxRequests == 2

\* Number of failures the email gateway may inject in one behaviour of the
\* concurrent specification.
MaxGatewayFaults == 3

\* Number of waitlist signups served in one behaviour of the specification
\* of concurrent signups.
MaxSignups == 3

\* Number of waitlist records the store holds at most when a behaviour of
\* the specification over an existing store begins.
MaxStored == 6

\* Number of records either container holds at most when a behaviour of
\* the specification of single DatabaseService calls begins.
MaxCallStored == 2

\* Number of invocations of the admin handler in one behaviour of the
\* specification with the admin handler.
MaxAdminRequests == 1

\* The largest attempt number the backoff delay is computed for in the
\* specification of the delay computation.
MaxBackoffAttempt == 8

\* ------------------------------------------------------- program constants

MAX_RETRIES == 3
INITIAL_DELAY_MS == 1000
MAX_DELAY_MS == 30000
BACKOFF_MULTIPLIER == 2
\* JITTER_PERCENTAGE = 0.25, kept as a percentage to stay in integers.
JITTER_PERCENTAGE_X100 == 25

\* Math.random() yields u in [0, 1); the model samples u = k / RandomScale.
RandomScale == 1000
RandomSamples == {0, 500, 999}

\* A finer sampling of Math.random(), for the specification of the delay
\* computation: every 50th value and the largest one.
JitterSamples ==
    {k \in 0..(RandomScale - 1) : k % 50 = 0} \cup {RandomScale - 1}

\* The invocations that can be in progress at the same time: two handler
\* invocations overlap, and a further request is served once one of them has
\* run to its end.
Req == {1, 2}

\* ------------------------------------------------------------ error values

\* A thrown JavaScript value.  isObject: typeof === 'object' && !== null;
\* isError: instanceof Error; hasStatusCode: 'statusCode' in error.
MkError(isObject, isError, hasStatusCode, statusCode, message, cause) ==
    [isObject |-> isObject, isError |-> isError, hasStatusCode |-> hasStatusCode,
     statusCode |-> statusCode, message |-> message, cause |-> cause]

\* `let lastError` before any assignment (undefined).
NoError == MkError(FALSE, FALSE, FALSE, 0, "undefined", "")

StatusText(code) ==
    CASE code = 400 -> "Bad Request"
      [] code = 401 -> "Unauthorized"
      [] code = 403 -> "Forbidden"
      [] code = 404 -> "Not Found"
      [] code = 429 -> "Too Many Requests"
      [] OTHER      -> "Internal Server Error"

\* An error of the gateway SDK that carries an HTTP status code.
RestError(code) == MkError(TRUE, TRUE, TRUE, code, StatusText(code), "")

\* A transport failure: an Error without a statusCode property.
TransportError == MkError(TRUE, TRUE, FALSE, 0, "ETIMEDOUT", "")

\* A thrown value that is not an object (e.g. a string).
ThrownString == MkError(FALSE, FALSE, FALSE, 0, "", "")

\* A thrown object that is not an Error and has a statusCode property.
StatusObject(code) == MkError(TRUE, FALSE, TRUE, code, "", "")

\* The failures the email gateway (beginSend / pollUntilDone) produces here.
GatewayErrors ==
    {RestError(c) : c \in {400, 401, 403, 404, 429, 500}}
        \cup {TransportError, ThrownString, StatusObject(403)}

\* ---------------------------------------------------------- retry executor

\* Variant: the list as the comment above it in the source gives it
\* (400, 401, 403), without 404.
nonRetryableStatusCodes_No404 == {400, 401, 403}

nonRetryableStatusCodes == {400, 401, 403, 404}

\* Variant: no error is classified non-retryable.
isNonRetryableError_Never(error) == FALSE

\* Variant: every error that has a statusCode property is non-retryable.
isNonRetryableError_AnyStatus(error) == error.isObject /\ error.hasStatusCode

isNonRetryableError(error) ==
    IF error.isObject /\ error.hasStatusCode
    THEN error.statusCode \in nonRetryableStatusCodes
    ELSE FALSE

RECURSIVE Pow(_, _)
Pow(b, n) == IF n = 0 THEN 1 ELSE b * Pow(b, n - 1)

Min(a, b) == IF a < b THEN a ELSE b

\* Math.round of the rational num / den (den > 0): floor(x + 1/2).
MathRound(num, den) == (2 * num + den) \div (2 * den)

\* Variant: the exponent is attempt - 1, so that the first delay is the
\* initial delay.
baseDelay_AttemptMinusOne(attempt) ==
    INITIAL_DELAY_MS * Pow(BACKOFF_MULTIPLIER, attempt - 1)

baseDelay(attempt) == INITIAL_DELAY_MS * Pow(BACKOFF_MULTIPLIER, attempt)

\* Variant: the delay is not capped.
cappedDelay_NoCap(attempt) == baseDelay(attempt)

cappedDelay(attempt) == Min(baseDelay(attempt), MAX_DELAY_MS)

\* 1 / JITTER_PERCENTAGE in units of 1 / RandomScale.
JitterDen == (100 * RandomScale) \div JITTER_PERCENTAGE_X100

\* delayMs = Math.round(cappedDelay + cappedDelay * 0.25 * (u * 2 - 1)),
\* with u = k / RandomScale: the rational
\* cappedDelay * (JitterDen + (2 * k - RandomScale)) / JitterDen.
delayMs(attempt, k) ==
    MathRound(cappedDelay(attempt) * (JitterDen + (2 * k - RandomScale)),
              JitterDen)

\* The state of one call of retryWithBackoff.
\*   st        where the call stands: "none" (not called), "calling" (awaiting
\*             operation()), "sleeping" (awaiting sleep), "returned", "thrown"
\*   attempt   the loop variable
\*   lastError the local of that name
\*   thrown    the value the call threw (st = "thrown")
\*   delay     the argument of the pending sleep (st = "sleeping")
\*   calls     number of invocations of operation() so far
\*   errs      the errors operation() threw, in order
\*   waits     number of sleeps started so far
NoRun ==
    [st |-> "none", attempt |-> 0, lastError |-> NoError, thrown |-> NoError,
     delay |-> 0, calls |-> 0, errs |-> <<>>, waits |-> 0]

\* Entry of retryWithBackoff up to its first await: attempt = 1 and
\* operation() has been invoked.
RetryStart ==
    [NoRun EXCEPT !.st = "calling", !.attempt = 1, !.calls = 1]

\* Variant: the result is not returned from inside the loop, which goes on
\* to the next attempt and ends in `throw lastError`.
RetryOnSuccess_NoReturn(run) ==
    IF run.attempt < MAX_RETRIES
    THEN [run EXCEPT !.attempt = @ + 1, !.calls = @ + 1]
    ELSE [run EXCEPT !.st = "thrown", !.thrown = run.lastError]

\* `await operation()` resolved: return result.
RetryOnSuccess(run) == [run EXCEPT !.st = "returned"]

\* Variant: lastError is only set by the first failure.
CaughtError_KeepFirst(run, error) ==
    IF run.lastError = NoError THEN error ELSE run.lastError

\* The value assigned to lastError in the catch block.
CaughtError(run, error) == error

\* Variant: the bound on the attempts is off by one, a fourth attempt is
\* scheduled.
HasAttemptsLeft_OneMore(run) == run.attempt <= MAX_RETRIES

\* Does the catch block schedule another attempt?
HasAttemptsLeft(run) == run.attempt < MAX_RETRIES

\* `await operation()` rejected with error: the catch block, and, when the
\* loop ends, the trailing `throw lastError`.
RetryOnFailure(run, error, k) ==
    LET seen == [run EXCEPT !.lastError = CaughtError(run, error),
                            !.errs = Append(@, error)]
    IN  IF isNonRetryableError(error)
        THEN [seen EXCEPT !.st = "thrown", !.thrown = error]
        ELSE IF HasAttemptsLeft(seen)
             THEN [seen EXCEPT !.st = "sleeping",
                               !.delay = delayMs(seen.attempt, k),
                               !.waits = @ + 1]
             ELSE [seen EXCEPT !.st = "thrown", !.thrown = seen.lastError]

\* Variant: the attempt number is not incremented after the sleep.
RetryOnWake_SameAttempt(run) ==
    [run EXCEPT !.st = "calling", !.calls = @ + 1, !.delay = 0]

\* `await this.sleep(delayMs)` resolved: attempt++ and operation() again.
RetryOnWake(run) ==
    [run EXCEPT !.st = "calling", !.attempt = @ + 1, !.calls = @ + 1,
                !.delay = 0]

\* ---------------------------------------------------------- email service

\* One call of a send method: the retry run it wraps and how its promise
\* settled ("none": not called, "pending", "resolved", "rejected" with error).
NoSend == [run |-> NoRun, outcome |-> "none", error |-> NoError]

\* A send method up to its first await: retryWithBackoff has been entered.
SendStart == [run |-> RetryStart, outcome |-> "pending", error |-> NoError]

\* new Error(`${prefix}: ${error instanceof Error ? error.message : 'Unknown error'}`)
WrappedError(prefix, error) ==
    MkError(TRUE, TRUE, FALSE, 0, prefix,
            IF error.isError THEN error.message ELSE "Unknown error")

\* The try/catch around retryWithBackoff in a confirmation send: rethrows.
CriticalSettle(run, prefix) ==
    CASE run.st = "returned" ->
           [run |-> run, outcome |-> "resolved", error |-> NoError]
      [] run.st = "thrown" ->
           [run |-> run, outcome |-> "rejected",
            error |-> WrappedError(prefix, run.thrown)]
      [] OTHER ->
           [run |-> run, outcome |-> "pending", error |-> NoError]

\* Variant: the promise of a notification send whose retry run threw is
\* never settled.
NonCriticalSettle_NeverSettles(run) ==
    CASE run.st = "returned" ->
           [run |-> run, outcome |-> "resolved", error |-> NoError]
      [] OTHER ->
           [run |-> run, outcome |-> "pending", error |-> NoError]

\* Variant: the catch block of the notification send rethrows, as the
\* confirmation send does.
NonCriticalSettle_Rethrow(run) ==
    CriticalSettle(run, "Failed to send notification email")

\* The try/catch around retryWithBackoff in an admin notification send:
\* logs and swallows.
NonCriticalSettle(run) ==
    CASE run.st \in {"returned", "thrown"} ->
           [run |-> run, outcome |-> "resolved", error |-> NoError]
      [] OTHER ->
           [run |-> run, outcome |-> "pending", error |-> NoError]

sendContactConfirmationEmail(run) ==
    CriticalSettle(run, "Failed to send confirmation email")

sendContactNotificationEmail(run) == NonCriticalSettle(run)

\* The methods of that name written after the closing brace of the class.
sendWaitlistConfirmationEmail(run) ==
    CriticalSettle(run, "Failed to send waitlist confirmation email")

sendWaitlistNotificationEmail(run) == NonCriticalSettle(run)

\* The members of that name declared inside the class: they throw at once,
\* before any gateway call.
MethodNotImplemented ==
    [run |-> NoRun, outcome |-> "rejected",
     error |-> MkError(TRUE, TRUE, FALSE, 0, "Method not implemented.", "")]

\* email.service.ts holds both versions of the two waitlist send methods;
\* which one a build of the file binds to EmailService is not determined by
\* the source, so it is chosen once, in Init.
WaitlistSendImpls == {"stub", "retry"}

\* ------------------------------------------------------------- validation

NoField == "<absent>"

RawEmails ==
    {"jane@x.com", "Jane@X.com", "bob@x.com", "amy@x.com", "not-an-email"}

\* emailRegex.test(email) on the addresses of RawEmails.
isValidEmail(email) ==
    email \in {"jane@x.com", "Jane@X.com", "bob@x.com", "amy@x.com"}

\* Variant: the address is stored as submitted.
NormalizeEmail_AsSubmitted(email) == email

\* email.toLowerCase().trim() on the addresses of RawEmails.
NormalizeEmail(email) ==
    CASE email = "Jane@X.com" -> "jane@x.com"
      [] OTHER -> email

\* A name of 101 characters and a message of 2001 characters, and what
\* substring(0, 100) and substring(0, 2000) keep of them.
LongName == "<name of 101 characters>"
LongMessage == "<message of 2001 characters>"
LongNamePrefix == "<name of 100 characters>"
LongMessagePrefix == "<message of 2000 characters>"

RawNames == {" Jane Doe ", "", LongName}
RawMessages == {"hi", "", LongMessage}

\* input.trim() on the strings of RawNames and RawMessages.
Trim(s) == IF s = " Jane Doe " THEN "Jane Doe" ELSE s

\* s.length on the strings of the model.
StrLen(s) ==
    CASE s = LongName -> 101
      [] s = LongMessage -> 2001
      [] s = LongNamePrefix -> 100
      [] s = LongMessagePrefix -> 2000
      [] s = " Jane Doe " -> 10
      [] s = "Jane Doe" -> 8
      [] s = "hi" -> 2
      [] OTHER -> 0

\* s.substring(0, maxLength) on the strings of the model.
Substring(s, maxLength) ==
    CASE StrLen(s) <= maxLength -> s
      [] s = LongName -> LongNamePrefix
      [] OTHER -> LongMessagePrefix

\* input.trim().substring(0, maxLength)
sanitizeString(input, maxLength) == Substring(Trim(input), maxLength)

\* The request bodies: ContactRequest and WaitlistRequest (name optional).
ContactBodies == [name : RawNames, email : RawEmails, message : RawMessages]

WaitlistBodies ==
    [name : RawNames \cup {NoField}, email : RawEmails, message : {NoField}]

\* Variant: only the address is validated.
validateContactSubmission_EmailOnly(body) ==
    IF ~isValidEmail(body.email)
    THEN <<"Valid email address is required">> ELSE <<>>

\* The errors array of validateContactSubmission.
validateContactSubmission(body) ==
    (IF Trim(body.name) = "" THEN <<"Name is required">> ELSE <<>>)
    \o (IF body.name # "" /\ StrLen(body.name) > 100
        THEN <<"Name must be less than 100 characters">> ELSE <<>>)
    \o (IF ~isValidEmail(body.email)
        THEN <<"Valid email address is required">> ELSE <<>>)
    \o (IF Trim(body.message) = "" THEN <<"Message is required">> ELSE <<>>)
    \o (IF body.message # "" /\ StrLen(body.message) > 2000
        THEN <<"Message must be less than 2000 characters">> ELSE <<>>)

\* The errors array of validateWaitlistSubmission (name is optional).
validateWaitlistSubmission(body) ==
    (IF ~isValidEmail(body.email)
     THEN <<"Valid email address is required">> ELSE <<>>)
    \o (IF body.name \notin {NoField, ""} /\ StrLen(body.name) > 100
        THEN <<"Name must be less than 100 characters">> ELSE <<>>)

\* ------------------------------------------------------------------ store

\* A value thrown by a Cosmos DB call.  isObject: typeof === 'object' &&
\* !== null; isError: instanceof Error; hasCode: 'code' in error && typeof
\* error.code === 'number'.
MkStoreError(isObject, isError, hasCode, code, message) ==
    [isObject |-> isObject, isError |-> isError, hasCode |-> hasCode,
     code |-> code, message |-> message]

NoStoreError == MkStoreError(FALSE, FALSE, FALSE, 0, "<none>")

\* A failure of a Cosmos DB call without a numeric code: an Error
\* (isError) or a thrown value that is not an object.
StoreError(isError, message) ==
    MkStoreError(isError, isError, FALSE, 0, message)

\* An error response of Cosmos DB: an Error with a numeric code.
CosmosError(code, message) == MkStoreError(TRUE, TRUE, TRUE, code, message)

StoreErrors ==
    {CosmosError(404, "Resource Not Found"),
     CosmosError(503, "Service Unavailable"),
     StoreError(TRUE, "socket hang up"),
     StoreError(FALSE, "")}

NoId == [prefix |-> "none", uuid |-> 0]

\* Variant: the id is the prefix alone, without a generated part.
MkId_NoUuid(prefix, uuid) == [prefix |-> prefix, uuid |-> 0]

\* `${prefix}-${randomUUID()}`
MkId(prefix, uuid) == [prefix |-> prefix, uuid |-> uuid]

NoSubmission ==
    [id |-> NoId, name |-> NoField, email |-> "", message |-> NoField,
     status |-> "none", submittedAt |-> 0, position |-> 0, partitionKey |-> ""]

\* submissionData of createContactSubmission.
ContactSubmissionData(id, name, email, message, submittedAt) ==
    [id |-> id, name |-> name, email |-> email, message |-> message,
     status |-> "new", submittedAt |-> submittedAt, position |-> 0,
     partitionKey |-> email]

\* submissionData of createWaitlistSubmission.
WaitlistSubmissionData(id, name, email, submittedAt, position) ==
    [id |-> id, name |-> name, email |-> email, message |-> NoField,
     status |-> "active", submittedAt |-> submittedAt, position |-> position,
     partitionKey |-> email]

Range(s) == {s[i] : i \in 1..Len(s)}

\* Variant: the lookup query also asks for the status "active".
QueryByEmail_ActiveOnly(items, email) ==
    {x \in Range(items) : x.email = email /\ x.status = "active"}

\* SELECT * FROM c WHERE c.email = @email
QueryByEmail(items, email) == {x \in Range(items) : x.email = email}

\* Variant: the count query without its WHERE clause.
QueryCount_AnyStatus(items, status) == <<Len(items)>>

\* SELECT VALUE COUNT(1) FROM c WHERE c.status = @status
QueryCount(items, status) ==
    <<Cardinality({i \in 1..Len(items) : items[i].status = status})>>

\* Variant: the emptiness test of the count query's result is off by one,
\* so the count is always taken to be 0.
getWaitlistCount_AlwaysZero(resources) ==
    IF Len(resources) > 1 THEN resources[1] ELSE 0

\* resources.length > 0 ? resources[0] : 0
getWaitlistCount(resources) ==
    IF Len(resources) > 0 THEN resources[1] ELSE 0

\* Variant: the position is the count plus two.
NextPosition_PlusTwo(count) == count + 2

\* const position = await this.getWaitlistCount() + 1
NextPosition(count) == count + 1

\* WaitlistSubmission.status
WaitlistStatuses == {"active", "notified", "converted"}

\* The addresses of the records an existing store holds.
SeedEmails ==
    <<"jane@x.com", "s2@x.com", "s3@x.com", "s4@x.com", "s5@x.com",
      "s6@x.com", "s7@x.com", "s8@x.com">>

\* The i-th record of an existing store: created i-th, so at position i, by
\* an earlier run; its status may have been changed since by an operator.
SeedRecord(i, status) ==
    [WaitlistSubmissionData(MkId("waitlist", 0 - i), NoField, SeedEmails[i],
                            0, i) EXCEPT !.status = status]

\* The contents container WaitlistSubmissions can have when the program
\* starts.
StoredWaitlists ==
    UNION {{[i \in 1..k |-> SeedRecord(i, st[i])] :
                st \in [1..k -> WaitlistStatuses]} : k \in 0..MaxStored}

\* How an awaited call of the Cosmos DB client ended: with a value or with
\* a thrown error.
BackendOk(value) == [ok |-> TRUE, value |-> value, error |-> NoStoreError]

BackendFailed(error) == [ok |-> FALSE, value |-> <<>>, error |-> error]

\* How a call of a DatabaseService method ended: it returned a value, it
\* returned null, or it threw.
Returned(value) ==
    [threw |-> FALSE, isNull |-> FALSE, value |-> value, error |-> NoStoreError]

ReturnedNull ==
    [threw |-> FALSE, isNull |-> TRUE, value |-> NoSubmission,
     error |-> NoStoreError]

Threw(error) ==
    [threw |-> TRUE, isNull |-> FALSE, value |-> NoSubmission, error |-> error]

\* `if (!resource) throw new Error('Failed to create ... submission in database')`
NoResourceError == StoreError(TRUE, "Failed to create submission in database")

\* The outcomes of container.items.create(submissionData): the item
\* response with the stored resource, an item response without a resource,
\* or a failure.
CreateOutcomes(submissionData) ==
    {BackendOk(submissionData), BackendOk(NoSubmission)}
        \cup {BackendFailed(error) : error \in StoreErrors}

\* The try/catch of createContactSubmission and of createWaitlistSubmission
\* around the create: the catch block logs and rethrows.
CreateSubmission(outcome) ==
    IF outcome.ok
    THEN IF outcome.value = NoSubmission
         THEN Threw(NoResourceError)
         ELSE Returned(outcome.value)
    ELSE Threw(outcome.error)

createContactSubmission(outcome) == CreateSubmission(outcome)

createWaitlistSubmission(outcome) == CreateSubmission(outcome)

\* error is { code: number }
isCosmosError(error) == error.isObject /\ error.hasCode

\* The outcomes of container.item(id, email).read(): the item response with
\* the resource, an item response without a resource (no such item), or a
\* failure; among the failures a plain object with a numeric code.
ReadErrors == StoreErrors \cup {MkStoreError(TRUE, FALSE, TRUE, 404, "")}

ReadOutcomes(items, id, email) ==
    {BackendOk(x) : x \in {y \in Range(items) : y.id = id /\ y.email = email}}
        \cup {BackendOk(NoSubmission)}
        \cup {BackendFailed(error) : error \in ReadErrors}

\* Variant: every caught Cosmos error gives null.
getContactSubmission_NullOnAnyCode(outcome) ==
    IF outcome.ok
    THEN IF outcome.value = NoSubmission
         THEN ReturnedNull
         ELSE Returned(outcome.value)
    ELSE IF isCosmosError(outcome.error)
         THEN ReturnedNull
         ELSE Threw(outcome.error)

\* getContactSubmission: `resource || null`; a caught Cosmos error with
\* code 404 gives null, every other error is rethrown.
getContactSubmission(outcome) ==
    IF outcome.ok
    THEN IF outcome.value = NoSubmission
         THEN ReturnedNull
         ELSE Returned(outcome.value)
    ELSE IF isCosmosError(outcome.error) /\ outcome.error.code = 404
         THEN ReturnedNull
         ELSE Threw(outcome.error)

\* The outcomes of the query of getWaitlistSubmissionByEmail: the matching
\* records (the query has no ORDER BY: in any order), or a failure.
LookupOutcomes(items, email) ==
    {BackendOk(QueryByEmail(items, email))}
        \cup {BackendFailed(error) : error \in StoreErrors}

\* Variant: an off-by-one in the emptiness test of the lookup result.
IsDuplicate_OffByOne(resources) == Cardinality(resources) > 1

\* resources.length > 0, the test by which getWaitlistSubmissionByEmail
\* tells a record from null (and so the handler's
\* `existingSubmission !== null && existingSubmission !== undefined`).
IsDuplicate(resources) == resources # {}

\* getWaitlistSubmissionByEmail: the results it can give for an outcome of
\* its query: resources[0] (any of the matching records) or null; the
\* catch block logs and rethrows.
getWaitlistSubmissionByEmail(outcome) ==
    IF outcome.ok
    THEN IF IsDuplicate(outcome.value)
         THEN {Returned(x) : x \in outcome.value}
         ELSE {ReturnedNull}
    ELSE {Threw(outcome.error)}

\* The outcomes of the query of getWaitlistCount: the one-row result of the
\* aggregate (or no row at all when nothing matches), or a failure.
CountOutcomes(items) ==
    {BackendOk(QueryCount(items, "active"))}
        \cup (IF QueryCount(items, "active") = <<0>>
              THEN {BackendOk(<<>>)} ELSE {})
        \cup {BackendFailed(error) : error \in StoreErrors}

\* Variant: a failed count query counts as an empty waitlist.
getWaitlistCountCall_ZeroOnFailure(outcome) ==
    IF outcome.ok
    THEN Returned(getWaitlistCount(outcome.value))
    ELSE Returned(0)

\* The method getWaitlistCount as a whole: the value computed from the
\* query's resources; the catch block logs and rethrows.
getWaitlistCountCall(outcome) ==
    IF outcome.ok
    THEN Returned(getWaitlistCount(outcome.value))
    ELSE Threw(outcome.error)

\* ContactSubmission.status
ContactStatuses == {"new", "read", "replied"}

\* The status argument of the list methods when omitted.
AnyStatus == "<any>"

\* SELECT * FROM c [WHERE c.status = @status]
QueryAll(items, status) ==
    SelectSeq(items, LAMBDA x : status = AnyStatus \/ x.status = status)

\* The outcomes of the query of getAllContactSubmissions
\* (ORDER BY c.submittedAt DESC).
ContactListOutcomes(items, status) ==
    {BackendOk(SortSeq(QueryAll(items, status),
                       LAMBDA a, b : a.submittedAt > b.submittedAt))}
        \cup {BackendFailed(error) : error \in StoreErrors}

\* The outcomes of the query of getAllWaitlistSubmissions
\* (ORDER BY c.position ASC).
WaitlistListOutcomes(items, status) ==
    {BackendOk(SortSeq(QueryAll(items, status),
                       LAMBDA a, b : a.position < b.position))}
        \cup {BackendFailed(error) : error \in StoreErrors}

\* The try/catch of the list methods around the query: `return resources`;
\* the catch block logs and rethrows.
GetAllSubmissions(outcome) ==
    IF outcome.ok THEN Returned(outcome.value) ELSE Threw(outcome.error)

getAllContactSubmissions(outcome) == GetAllSubmissions(outcome)

getAllWaitlistSubmissions(outcome) == GetAllSubmissions(outcome)

\* --------------------------------------------------------------- responses

NoData == [present |-> FALSE, submissionId |-> NoId, email |-> "", position |-> 0]

ResponseData(submission) ==
    [present |-> TRUE, submissionId |-> submission.id,
     email |-> submission.email, position |-> submission.position]

NoResponse ==
    [status |-> 0, success |-> FALSE, message |-> "", error |-> "", data |-> NoData]

Response(status, success, message, error, data) ==
    [status |-> status, success |-> success, message |-> message,
     error |-> error, data |-> data]

ValidationFailed ==
    Response(400, FALSE, "Validation failed", "validation", NoData)

\* Variant: the inner catch answers like the outer one, without data.
ConfirmationFailed_NoData(submission) ==
    Response(500, FALSE, "saved, but could not send the confirmation email",
             "Failed to send confirmation email", NoData)

\* The response of the inner catch around the confirmation send.
ConfirmationFailed(submission) ==
    Response(500, FALSE, "saved, but could not send the confirmation email",
             "Failed to send confirmation email", ResponseData(submission))

\* The response after the sends.
Succeeded(submission) ==
    Response(200, TRUE, "thank you", "", ResponseData(submission))

\* The response for an email that is already on the waitlist.
AlreadyOnWaitlist(existingSubmission) ==
    Response(200, TRUE, "already on our waitlist", "",
             ResponseData(existingSubmission))

\* error.message?.includes('Resource Not Found')
IncludesResourceNotFound(message) == message = "Resource Not Found"

\* Variant: a store that reports 'Resource Not Found' is answered 404.
OuterCatch_NotFoundIs404(error) ==
    IF error.isError /\ IncludesResourceNotFound(error.message)
    THEN Response(404, FALSE, "could not process your request right now",
                  "Not found", NoData)
    ELSE Response(500, FALSE, "an error occurred", "Internal server error", NoData)

\* The outer catch of a handler (SHOW_DETAILED_ERRORS unset).
OuterCatch(error) ==
    IF error.isError /\ IncludesResourceNotFound(error.message)
    THEN Response(503, FALSE, "could not process your request right now",
                  "Service temporarily unavailable", NoData)
    ELSE Response(500, FALSE, "an error occurred", "Internal server error", NoData)

\* ---------------------------------------------------------- admin handler

\* process.env.ADMIN_API_KEY when the variable is not set (undefined).
NoAdminKey == "<undefined>"

\* request.headers.get('authorization') when the request has no such
\* header (null).
NoHeader == "<null>"

\* url.searchParams.get(..) of a parameter the request does not have (null).
NoParam == "<null>"

\* The values of ADMIN_API_KEY: not set, set to the empty string, set to a
\* key.
AdminKeys == {NoAdminKey, "", "s3cret"}

\* `Bearer ${adminKey}`: an undefined value is formatted as "undefined".
BearerOf(adminKey) ==
    "Bearer " \o (IF adminKey = NoAdminKey THEN "undefined" ELSE adminKey)

\* The Authorization headers requests come with: none, the key with the
\* Bearer scheme, the scheme in lower case, the key alone, what the
\* template gives for an undefined key and for an empty one.
AuthHeaders ==
    {NoHeader, "Bearer s3cret", "bearer s3cret", "s3cret",
     "Bearer undefined", "Bearer "}

\* The query parameters `action` and `type`.
AdminActions == {"list", "stats", NoParam}

AdminTypes == {"contact", "waitlist", NoParam}

\* Variant: the header alone is compared, a missing key is not tested.
Unauthorized_KeyNotTested(adminKey, authHeader) ==
    authHeader # BearerOf(adminKey)

\* !adminKey || authHeader !== `Bearer ${adminKey}`
Unauthorized(adminKey, authHeader) ==
    \/ adminKey \in {NoAdminKey, ""}
    \/ authHeader # BearerOf(adminKey)

\* A call of a DatabaseService method by the admin handler.
AdminCall(fn, status) == [fn |-> fn, status |-> status]

\* The DatabaseService calls of the switch statement, in the order in which
\* they are awaited; none for an invalid action or type.
AdminCalls(action, type) ==
    CASE action = "list" /\ type = "contact" ->
           <<AdminCall("getAllContactSubmissions", AnyStatus)>>
      [] action = "list" /\ type = "waitlist" ->
           <<AdminCall("getAllWaitlistSubmissions", AnyStatus)>>
      [] action = "stats" ->
           <<AdminCall("getAllContactSubmissions", AnyStatus),
             AdminCall("getWaitlistCount", "active"),
             AdminCall("getAllContactSubmissions", "new"),
             AdminCall("getAllContactSubmissions", "read"),
             AdminCall("getAllContactSubmissions", "replied"),
             AdminCall("getAllWaitlistSubmissions", "active"),
             AdminCall("getAllWaitlistSubmissions", "notified"),
             AdminCall("getAllWaitlistSubmissions", "converted")>>
      [] OTHER -> <<>>

\* An invocation of adminDashboard: its locals, the values its store calls
\* have returned so far (results), the number of store calls it has issued
\* (storeCalls), its response (status 0: none yet), and the number of
\* invocations so far (served).  pc: "idle" (never invoked), "query"
\* (awaiting a store call), "done" (returned).
IdleAdmin ==
    [pc |-> "idle", adminKey |-> NoAdminKey, authHeader |-> NoHeader,
     action |-> NoParam, type |-> NoParam, results |-> <<>>,
     storeCalls |-> 0, status |-> 0, success |-> FALSE, error |-> "",
     served |-> 0]

\* The outer catch of adminDashboard:
\* error instanceof Error ? error.message : 'Unknown error occurred'
AdminErrorMessage(error) ==
    IF error.isError THEN error.message ELSE "Unknown error occurred"

\* ------------------------------------------------------------------ state

VARIABLES
    impl,           \* which version of the waitlist send methods is bound
    req,            \* per request slot: the handler's position and locals
    confirmSend,    \* per request slot: the confirmation send
    notifySend,     \* per request slot: the admin notification send
    response,       \* per request slot: the HTTP response returned
    contacts,       \* container ContactSubmissions, in creation order
    waitlistItems,  \* container WaitlistSubmissions, in creation order
    served,         \* number of requests received so far
    nextUuid,       \* randomUUID(): the next fresh value
    now,            \* the clock read by new Date()
    faults,         \* gateway failures injected so far
    unitCall,       \* the last call of a DatabaseService method made
                    \* directly (not through a handler): the method, the
                    \* backend's outcome and the method's result; or
                    \* the last delay computation of retryWithBackoff
                    \* made on its own: the attempt number, the base and
                    \* the capped delay, and the delay with jitter
    admin           \* the invocation of the admin handler

vars == <<impl, req, confirmSend, notifySend, response, contacts,
          waitlistItems, served, nextUuid, now, faults, unitCall, admin>>

NoUnitCall ==
    [fn |-> "none", query |-> "none", outcome |-> <<>>, result |-> <<>>]

\* A handler's locals (rawEmail: requestData.email; data: the submissionData
\* being created; submission: the record the store returned).  pc: "idle" (not yet invoked), "create", "lookup",
\* "count", "wcreate" (awaiting that store call), "confirm", "notify"
\* (awaiting that send), "done" (returned).
IdleRequest ==
    [pc |-> "idle", kind |-> "none", rawEmail |-> "",
     data |-> NoSubmission, submission |-> NoSubmission]

Init ==
    /\ impl \in WaitlistSendImpls
    /\ req = [r \in Req |-> IdleRequest]
    /\ confirmSend = [r \in Req |-> NoSend]
    /\ notifySend = [r \in Req |-> NoSend]
    /\ response = [r \in Req |-> NoResponse]
    /\ contacts = <<>>
    /\ waitlistItems = <<>>
    /\ served = 0
    /\ nextUuid = 1
    /\ now = 1
    /\ faults = 0
    /\ unitCall = NoUnitCall
    /\ admin = IdleAdmin

\* The state after construction over an existing store.
InitStored ==
    /\ impl \in WaitlistSendImpls
    /\ req = [r \in Req |-> IdleRequest]
    /\ confirmSend = [r \in Req |-> NoSend]
    /\ notifySend = [r \in Req |-> NoSend]
    /\ response = [r \in Req |-> NoResponse]
    /\ contacts = <<>>
    /\ waitlistItems \in StoredWaitlists
    /\ served = 0
    /\ nextUuid = 1
    /\ now = 1
    /\ faults = 0
    /\ unitCall = NoUnitCall
    /\ admin = IdleAdmin

\* The i-th record of an existing container ContactSubmissions.
SeedContact(i, status) ==
    [ContactSubmissionData(MkId("contact", 0 - i), "Jane Doe", SeedEmails[i],
                           "hi", 0 - i) EXCEPT !.status = status]

\* The contents the two containers can have when single DatabaseService
\* calls are made.
StoredContactsForCalls ==
    UNION {{[i \in 1..k |-> SeedContact(i, st[i])] :
                st \in [1..k -> ContactStatuses]} : k \in 0..MaxCallStored}

StoredWaitlistsForCalls ==
    UNION {{[i \in 1..k |-> SeedRecord(i, st[i])] :
                st \in [1..k -> WaitlistStatuses]} : k \in 0..MaxCallStored}

\* The state after construction of a DatabaseService over existing
\* containers.
InitCalls ==
    /\ impl \in WaitlistSendImpls
    /\ req = [r \in Req |-> IdleRequest]
    /\ confirmSend = [r \in Req |-> NoSend]
    /\ notifySend = [r \in Req |-> NoSend]
    /\ response = [r \in Req |-> NoResponse]
    /\ contacts \in StoredContactsForCalls
    /\ waitlistItems \in StoredWaitlistsForCalls
    /\ served = 0
    /\ nextUuid = 1
    /\ now = 1
    /\ faults = 0
    /\ unitCall = NoUnitCall
    /\ admin = IdleAdmin

\* The environment of a specification: the bodies requests come with, the
\* failures the email gateway produces, the values Math.random() takes, the
\* number of failures the gateway injects at most and the number of
\* requests served.
\* FullEnv: every body, every failure value and every jitter sample, for
\* the single-request specification.
FullEnv ==
    [contactBodies |-> ContactBodies, waitlistBodies |-> WaitlistBodies,
     errors |-> GatewayErrors, samples |-> RandomSamples,
     faults |-> 2 * MAX_RETRIES, requests |-> 1]

\* CoarseEnv, for the specification of concurrent requests: contact bodies
\* with one address (contact records do not interact through it), waitlist
\* bodies without a name and with two addresses that differ after
\* normalization, invalid bodies of both kinds, one non-retryable and one
\* retryable gateway failure, nominal jitter.
CoarseEnv ==
    [contactBodies |->
         {b \in ContactBodies : b.email \in {"Jane@X.com", "not-an-email"}},
     waitlistBodies |->
         {b \in WaitlistBodies :
             /\ b.name = NoField
             /\ b.email \in {"Jane@X.com", "bob@x.com", "not-an-email"}},
     errors |-> {RestError(404), RestError(500)}, samples |-> {500},
     faults |-> MaxGatewayFaults, requests |-> MaxRequests]

\* SignupEnv, for the specification of concurrent signups: waitlist bodies
\* with three different addresses, a gateway that does not fail.
SignupEnv ==
    [contactBodies |-> {},
     waitlistBodies |->
         {b \in WaitlistBodies :
             /\ b.name = NoField
             /\ b.email \in {"jane@x.com", "bob@x.com", "amy@x.com"}},
     errors |-> {}, samples |-> {},
     faults |-> 0, requests |-> MaxSignups]

\* StoredEnv, for the specification over an existing store: one waitlist
\* request, for an address the store may hold or a new one, and a gateway
\* that does not fail.
StoredEnv ==
    [contactBodies |-> {},
     waitlistBodies |->
         {b \in WaitlistBodies :
             /\ b.name = NoField
             /\ b.email \in {"Jane@X.com", "bob@x.com", "not-an-email"}},
     errors |-> {}, samples |-> {},
     faults |-> 0, requests |-> 1]

\* AdminEnv, for the specification with the admin handler: valid contact
\* and waitlist bodies, a gateway that fails at most once, with a
\* non-retryable error.
AdminEnv ==
    [contactBodies |->
         {b \in ContactBodies :
             b.email = "Jane@X.com" /\ validateContactSubmission(b) = <<>>},
     waitlistBodies |->
         {b \in WaitlistBodies :
             b.name = NoField /\ b.email = "bob@x.com"},
     errors |-> {RestError(404)}, samples |-> {500},
     faults |-> 1, requests |-> MaxRequests]

\* LiveEnv, for the specification with fairness: one valid contact body and
\* one valid waitlist body, a gateway that fails with a retryable or a
\* non-retryable error, often enough to use up the attempts of one send.
LiveEnv ==
    [contactBodies |->
         {b \in ContactBodies :
             b.email = "Jane@X.com" /\ validateContactSubmission(b) = <<>>},
     waitlistBodies |->
         {b \in WaitlistBodies :
             b.name = NoField /\ b.email = "bob@x.com"},
     errors |-> {RestError(404), RestError(500)}, samples |-> {500},
     faults |-> MAX_RETRIES, requests |-> MaxRequests]

\* The invocation of slot r has run to its end: the handler has returned
\* and no send it dispatched is still in progress.
Finished(r) ==
    /\ req[r].pc = "done"
    /\ notifySend[r].run.st \notin {"calling", "sleeping"}

\* A slot takes a new invocation when it has none in progress.  The slots
\* are interchangeable names, so a new invocation takes the lowest such slot.
Available(r) == req[r].pc = "idle" \/ Finished(r)

SlotFree(r) == Available(r) /\ \A q \in Req : q < r => ~Available(q)

\* A new invocation begins in slot r with fresh locals.
Begin(g, r) ==
    /\ SlotFree(r)
    /\ served < g.requests
    /\ served' = served + 1
    /\ confirmSend' = [confirmSend EXCEPT ![r] = NoSend]
    /\ notifySend' = [notifySend EXCEPT ![r] = NoSend]

\* The handler of slot r returns resp.
Return(r, resp) ==
    /\ response' = [response EXCEPT ![r] = resp]

\* ------------------------------------------------------- contact handler

\* contactForm up to its first store await: parse, validate, construct the
\* services and enter createContactSubmission (id generated, create issued).
ContactRequest(g, r) ==
    /\ Begin(g, r)
    /\ \E body \in g.contactBodies :
         IF validateContactSubmission(body) # <<>>
         THEN /\ req' = [req EXCEPT ![r] = [IdleRequest EXCEPT
                                               !.pc = "done",
                                               !.kind = "contact"]]
              /\ Return(r, ValidationFailed)
              /\ UNCHANGED <<nextUuid, now>>
         ELSE /\ req' = [req EXCEPT ![r] =
                   [IdleRequest EXCEPT
                       !.pc = "create", !.kind = "contact",
                       !.rawEmail = body.email,
                       !.data = ContactSubmissionData(
                           MkId("contact", nextUuid),
                           sanitizeString(body.name, 100),
                           NormalizeEmail(body.email),
                           sanitizeString(body.message, 2000),
                           now)]]
              /\ nextUuid' = nextUuid + 1
              /\ now' = now + 1
              /\ Return(r, NoResponse)
    /\ UNCHANGED <<impl, unitCall, admin, contacts, waitlistItems, faults>>

\* What the contact handler does once createContactSubmission has returned
\* the persisted record: it calls sendContactConfirmationEmail.
ContactAfterCreate(r, resource) ==
    /\ req' = [req EXCEPT ![r] = [@ EXCEPT !.pc = "confirm",
                                          !.submission = resource]]
    /\ confirmSend' = [confirmSend EXCEPT ![r] = SendStart]
    /\ UNCHANGED response

\* Variant: the store failure is logged and the handler carries on to the
\* confirmation send with the record it meant to create.
HandlerStoreFailure_CarryOn(r, error) ==
    /\ req' = [req EXCEPT ![r] = [@ EXCEPT !.pc = "confirm",
                                          !.submission = req[r].data]]
    /\ confirmSend' = [confirmSend EXCEPT ![r] = SendStart]
    /\ UNCHANGED response

\* What a handler does when a store call threw error: the outer catch.
HandlerStoreFailure(r, error) ==
    /\ req' = [req EXCEPT ![r] = [@ EXCEPT !.pc = "done"]]
    /\ Return(r, OuterCatch(error))
    /\ UNCHANGED confirmSend

\* container.items.create of createContactSubmission completes.
ContactCreateDone(r) ==
    /\ req[r].pc = "create"
    /\ \E outcome \in CreateOutcomes(req[r].data) :
         LET result == createContactSubmission(outcome)
         IN  IF result.threw
             THEN /\ HandlerStoreFailure(r, result.error)
                  /\ UNCHANGED contacts
             ELSE /\ contacts' = Append(contacts, outcome.value)
                  /\ ContactAfterCreate(r, result.value)
    /\ UNCHANGED <<impl, unitCall, admin, served, notifySend, waitlistItems, nextUuid, now, faults>>

\* The possible completions of one gateway send (operation() of a retry
\* run): the run after the code that follows the await.
GatewayOutcome(g, run, next) ==
    \/ /\ next = RetryOnSuccess(run)
       /\ UNCHANGED faults
    \/ /\ faults < g.faults
       /\ \E error \in g.errors, k \in g.samples :
            next = RetryOnFailure(run, error, k)
       /\ faults' = faults + 1

\* The set of runs GatewayOutcome can lead to (for \E over the next run).
NextRuns(g, run) ==
    {RetryOnSuccess(run)} \cup
    {RetryOnFailure(run, error, k) : error \in g.errors, k \in g.samples}

\* The confirmation send method the handler of request r calls.
ConfirmationSend(r, run) ==
    IF req[r].kind = "contact"
    THEN sendContactConfirmationEmail(run)
    ELSE sendWaitlistConfirmationEmail(run)

\* The admin notification send method the handler of request r calls.
NotificationSend(r, run) ==
    IF req[r].kind = "contact"
    THEN sendContactNotificationEmail(run)
    ELSE sendWaitlistNotificationEmail(run)

\* Does the handler of this kind await the admin notification before it
\* returns?  contactForm dispatches it with .then/.catch and returns;
\* waitlist awaits it inside try/catch.
AwaitsNotification(kind) == kind = "waitlist"

\* Variant: the admin notification is dispatched whether or not the
\* confirmation send succeeded.
HandlerAfterConfirm_NotifyAnyway(r, send) ==
    CASE send.outcome = "rejected" ->
           /\ req' = [req EXCEPT ![r] = [@ EXCEPT !.pc = "done"]]
           /\ Return(r, ConfirmationFailed(req[r].submission))
           /\ notifySend' = [notifySend EXCEPT ![r] = SendStart]
           /\ UNCHANGED <<contacts, waitlistItems>>
      [] send.outcome = "resolved" ->
           /\ notifySend' = [notifySend EXCEPT ![r] = SendStart]
           /\ IF AwaitsNotification(req[r].kind)
              THEN /\ req' = [req EXCEPT ![r] = [@ EXCEPT !.pc = "notify"]]
                   /\ UNCHANGED response
              ELSE /\ req' = [req EXCEPT ![r] = [@ EXCEPT !.pc = "done"]]
                   /\ Return(r, Succeeded(req[r].submission))
           /\ UNCHANGED <<contacts, waitlistItems>>
      [] OTHER ->
           UNCHANGED <<req, response, notifySend, contacts, waitlistItems>>

\* Variant: a failed confirmation rolls the record back (a compensating
\* delete) before the error response is returned.
HandlerAfterConfirm_Rollback(r, send) ==
    CASE send.outcome = "rejected" ->
           /\ req' = [req EXCEPT ![r] = [@ EXCEPT !.pc = "done"]]
           /\ Return(r, ConfirmationFailed(req[r].submission))
           /\ contacts' = SelectSeq(contacts,
                              LAMBDA x : x.id # req[r].submission.id)
           /\ waitlistItems' = SelectSeq(waitlistItems,
                              LAMBDA x : x.id # req[r].submission.id)
           /\ UNCHANGED notifySend
      [] send.outcome = "resolved" ->
           /\ notifySend' = [notifySend EXCEPT ![r] = SendStart]
           /\ IF req[r].kind = "waitlist"
              THEN /\ req' = [req EXCEPT ![r] = [@ EXCEPT !.pc = "notify"]]
                   /\ UNCHANGED response
              ELSE /\ req' = [req EXCEPT ![r] = [@ EXCEPT !.pc = "done"]]
                   /\ Return(r, [status |-> 200, success |-> TRUE,
                                 message |-> "thank you", error |-> "",
                                 data |-> [present |-> TRUE,
                                           submissionId |-> req[r].submission.id,
                                           email |-> req[r].submission.email,
                                           position |-> req[r].submission.position]])
           /\ UNCHANGED <<contacts, waitlistItems>>
      [] OTHER ->
           UNCHANGED <<req, response, notifySend, contacts, waitlistItems>>

\* The handler code after `await emailService.send...ConfirmationEmail`:
\* the inner catch on rejection; on success the admin notification is
\* dispatched and, unless it is awaited, the success response returned.
\* No branch touches the store.
HandlerAfterConfirm(r, send) ==
    CASE send.outcome = "rejected" ->
           /\ req' = [req EXCEPT ![r] = [@ EXCEPT !.pc = "done"]]
           /\ Return(r, ConfirmationFailed(req[r].submission))
           /\ UNCHANGED <<notifySend, contacts, waitlistItems>>
      [] send.outcome = "resolved" ->
           /\ notifySend' = [notifySend EXCEPT ![r] = SendStart]
           /\ IF AwaitsNotification(req[r].kind)
              THEN /\ req' = [req EXCEPT ![r] = [@ EXCEPT !.pc = "notify"]]
                   /\ UNCHANGED response
              ELSE /\ req' = [req EXCEPT ![r] = [@ EXCEPT !.pc = "done"]]
                   /\ Return(r, Succeeded(req[r].submission))
           /\ UNCHANGED <<contacts, waitlistItems>>
      [] OTHER ->
           UNCHANGED <<req, response, notifySend, contacts, waitlistItems>>

\* The gateway send of the confirmation's current attempt completes.
ConfirmCallDone(g, r) ==
    /\ req[r].pc = "confirm"
    /\ confirmSend[r].run.st = "calling"
    /\ \E next \in NextRuns(g, confirmSend[r].run) :
         /\ GatewayOutcome(g, confirmSend[r].run, next)
         /\ confirmSend' = [confirmSend EXCEPT ![r] = ConfirmationSend(r, next)]
         /\ HandlerAfterConfirm(r, ConfirmationSend(r, next))
    /\ UNCHANGED <<impl, unitCall, admin, served, nextUuid, now>>

\* Variant: `attempt` is a field of the service shared by every run in
\* progress, so the `attempt++` of one run also counts for the others.
ConfirmWake_SharedAttempt(r) ==
    LET Shared(send) ==
            IF send.run.st \in {"calling", "sleeping"}
            THEN [send EXCEPT !.run = [@ EXCEPT !.attempt = @ + 1]]
            ELSE send
    IN  /\ req[r].pc = "confirm"
        /\ confirmSend[r].run.st = "sleeping"
        /\ confirmSend' = [q \in Req |->
               IF q = r
               THEN [confirmSend[q] EXCEPT !.run = RetryOnWake(@)]
               ELSE Shared(confirmSend[q])]
        /\ notifySend' = [q \in Req |-> Shared(notifySend[q])]
        /\ UNCHANGED <<impl, unitCall, admin, served, req, response, contacts,
                       waitlistItems, nextUuid, now, faults>>

\* The backoff sleep of the confirmation's retry run ends.
ConfirmWake(r) ==
    /\ req[r].pc = "confirm"
    /\ confirmSend[r].run.st = "sleeping"
    /\ confirmSend' = [confirmSend EXCEPT ![r] =
                          [@ EXCEPT !.run = RetryOnWake(@)]]
    /\ UNCHANGED <<impl, unitCall, admin, served, req, notifySend, response, contacts, waitlistItems,
                   nextUuid, now, faults>>

\* Variant: a notification whose retries failed turns the awaited
\* handler's response into an error.
HandlerAfterNotify_FailOnError(r, send) ==
    IF req[r].pc = "notify" /\ send.outcome \in {"resolved", "rejected"}
    THEN /\ req' = [req EXCEPT ![r] = [@ EXCEPT !.pc = "done"]]
         /\ Return(r, IF send.run.st = "thrown"
                      THEN ConfirmationFailed(req[r].submission)
                      ELSE Succeeded(req[r].submission))
    ELSE UNCHANGED <<req, response>>

\* The handler code after an awaited admin notification settled: a
\* rejection is caught and logged, and the success response returned.
HandlerAfterNotify(r, send) ==
    IF req[r].pc = "notify" /\ send.outcome \in {"resolved", "rejected"}
    THEN /\ req' = [req EXCEPT ![r] = [@ EXCEPT !.pc = "done"]]
         /\ Return(r, Succeeded(req[r].submission))
    ELSE UNCHANGED <<req, response>>

\* The gateway send of the admin notification's current attempt completes.
NotifyCallDone(g, r) ==
    /\ notifySend[r].run.st = "calling"
    /\ \E next \in NextRuns(g, notifySend[r].run) :
         /\ GatewayOutcome(g, notifySend[r].run, next)
         /\ notifySend' = [notifySend EXCEPT ![r] = NotificationSend(r, next)]
         /\ HandlerAfterNotify(r, NotificationSend(r, next))
    /\ UNCHANGED <<impl, unitCall, admin, served, confirmSend, contacts, waitlistItems, nextUuid, now>>

\* The backoff sleep of the admin notification's retry run ends.
NotifyWake(r) ==
    /\ notifySend[r].run.st = "sleeping"
    /\ notifySend' = [notifySend EXCEPT ![r] =
                         [@ EXCEPT !.run = RetryOnWake(@)]]
    /\ UNCHANGED <<impl, unitCall, admin, served, req, confirmSend, response, contacts, waitlistItems,
                   nextUuid, now, faults>>

\* ------------------------------------------------------ waitlist handler

\* waitlist up to its first store await: parse, validate, construct the
\* services and issue the query of getWaitlistSubmissionByEmail.
WaitlistRequest(g, r) ==
    /\ Begin(g, r)
    /\ \E body \in g.waitlistBodies :
         IF validateWaitlistSubmission(body) # <<>>
         THEN /\ req' = [req EXCEPT ![r] = [IdleRequest EXCEPT
                                               !.pc = "done",
                                               !.kind = "waitlist"]]
              /\ Return(r, ValidationFailed)
         ELSE /\ req' = [req EXCEPT ![r] =
                   [IdleRequest EXCEPT
                       !.pc = "lookup", !.kind = "waitlist",
                       !.rawEmail = body.email,
                       !.data = [NoSubmission EXCEPT !.name =
                           IF body.name \in {NoField, ""}
                           THEN NoField
                           ELSE sanitizeString(body.name, 100)]]]
              /\ Return(r, NoResponse)
    /\ UNCHANGED <<impl, unitCall, admin, contacts, waitlistItems, nextUuid, now, faults>>

\* The query of getWaitlistSubmissionByEmail completes.  A match is
\* answered at once; otherwise createWaitlistSubmission is entered (id
\* generated, submittedAt read) and the count query issued.
WaitlistLookupDone(r) ==
    /\ req[r].pc = "lookup"
    /\ \E outcome \in LookupOutcomes(waitlistItems,
                                     NormalizeEmail(req[r].rawEmail)) :
         \E existingSubmission \in getWaitlistSubmissionByEmail(outcome) :
            CASE existingSubmission.threw ->
                   /\ HandlerStoreFailure(r, existingSubmission.error)
                   /\ UNCHANGED <<nextUuid, now>>
              [] ~existingSubmission.threw /\ ~existingSubmission.isNull ->
                   /\ req' = [req EXCEPT ![r] = [@ EXCEPT !.pc = "done"]]
                   /\ Return(r, AlreadyOnWaitlist(existingSubmission.value))
                   /\ UNCHANGED <<nextUuid, now, confirmSend>>
              [] OTHER ->
                   /\ req' = [req EXCEPT ![r] =
                        [@ EXCEPT !.pc = "count",
                                  !.data = WaitlistSubmissionData(
                                      MkId("waitlist", nextUuid),
                                      req[r].data.name,
                                      NormalizeEmail(req[r].rawEmail),
                                      now, 0)]]
                   /\ nextUuid' = nextUuid + 1
                   /\ now' = now + 1
                   /\ UNCHANGED <<response, confirmSend>>
    /\ UNCHANGED <<impl, unitCall, admin, served, notifySend, contacts, waitlistItems, faults>>

\* The count query of getWaitlistCount completes: position is computed and
\* container.items.create issued.
WaitlistCountDone(r) ==
    /\ req[r].pc = "count"
    /\ \E outcome \in CountOutcomes(waitlistItems) :
         LET count == getWaitlistCountCall(outcome)
         IN  IF count.threw
             THEN HandlerStoreFailure(r, count.error)
             ELSE /\ req' = [req EXCEPT ![r] =
                        [@ EXCEPT !.pc = "wcreate",
                                  !.data = [@ EXCEPT !.position =
                                                NextPosition(count.value)]]]
                  /\ UNCHANGED <<response, confirmSend>>
    /\ UNCHANGED <<impl, unitCall, admin, served, notifySend, contacts, waitlistItems, nextUuid, now, faults>>

\* What the waitlist handler does once createWaitlistSubmission has
\* returned the persisted record: it calls sendWaitlistConfirmationEmail,
\* which either throws at once (class member) or starts a retry run.
WaitlistAfterCreate(r, resource) ==
    IF impl = "stub"
    THEN /\ req' = [req EXCEPT ![r] = [@ EXCEPT !.pc = "done",
                                              !.submission = resource]]
         /\ confirmSend' = [confirmSend EXCEPT ![r] = MethodNotImplemented]
         /\ Return(r, ConfirmationFailed(resource))
    ELSE /\ req' = [req EXCEPT ![r] = [@ EXCEPT !.pc = "confirm",
                                              !.submission = resource]]
         /\ confirmSend' = [confirmSend EXCEPT ![r] = SendStart]
         /\ UNCHANGED response

\* container.items.create of createWaitlistSubmission completes.
WaitlistCreateDone(r) ==
    /\ req[r].pc = "wcreate"
    /\ \E outcome \in CreateOutcomes(req[r].data) :
         LET result == createWaitlistSubmission(outcome)
         IN  IF result.threw
             THEN /\ HandlerStoreFailure(r, result.error)
                  /\ UNCHANGED waitlistItems
             ELSE /\ waitlistItems' = Append(waitlistItems, outcome.value)
                  /\ WaitlistAfterCreate(r, result.value)
    /\ UNCHANGED <<impl, unitCall, admin, served, notifySend, contacts, nextUuid, now, faults>>

\* ------------------------------------------ single DatabaseService calls

\* What a direct call leaves unchanged: the handlers' state.
NoHandlerStep ==
    UNCHANGED <<impl, req, confirmSend, notifySend, response, served, now,
                faults, admin>>

\* A method is called on a service that has not been called yet.
\* query names the backend call of the method that outcome is the outcome
\* of.
Called(fn, query, outcome, result) ==
    /\ unitCall.fn = "none"
    /\ unitCall' = [fn |-> fn, query |-> query, outcome |-> outcome,
                    result |-> result]

\* createContactSubmission(submission) called directly.
CallCreateContactSubmission ==
    /\ LET submissionData ==
               ContactSubmissionData(MkId("contact", nextUuid), "Jane Doe",
                                     "bob@x.com", "hi", now)
       IN  \E outcome \in CreateOutcomes(submissionData) :
             /\ Called("createContactSubmission", "create", outcome,
                       createContactSubmission(outcome))
             /\ contacts' = IF outcome.ok /\ outcome.value # NoSubmission
                            THEN Append(contacts, outcome.value)
                            ELSE contacts
    /\ nextUuid' = nextUuid + 1
    /\ UNCHANGED waitlistItems
    /\ NoHandlerStep

\* getContactSubmission(id, email) called directly, for the id and email of
\* a record that may or may not be stored.
CallGetContactSubmission ==
    /\ \E i \in 1..(MaxCallStored + 1) :
         \E outcome \in ReadOutcomes(contacts, MkId("contact", 0 - i),
                                      SeedEmails[i]) :
            Called("getContactSubmission", "read", outcome,
                   getContactSubmission(outcome))
    /\ UNCHANGED <<contacts, waitlistItems, nextUuid>>
    /\ NoHandlerStep

\* getAllContactSubmissions(status?) called directly.
CallGetAllContactSubmissions ==
    /\ \E status \in ContactStatuses \cup {AnyStatus} :
         \E outcome \in ContactListOutcomes(contacts, status) :
            Called("getAllContactSubmissions", "query", outcome,
                   getAllContactSubmissions(outcome))
    /\ UNCHANGED <<contacts, waitlistItems, nextUuid>>
    /\ NoHandlerStep

\* getWaitlistSubmissionByEmail(email) called directly.
CallGetWaitlistSubmissionByEmail ==
    /\ \E i \in 1..(MaxCallStored + 1) :
         \E outcome \in LookupOutcomes(waitlistItems, SeedEmails[i]) :
            \E result \in getWaitlistSubmissionByEmail(outcome) :
               Called("getWaitlistSubmissionByEmail", "query", outcome,
                      result)
    /\ UNCHANGED <<contacts, waitlistItems, nextUuid>>
    /\ NoHandlerStep

\* getWaitlistCount() called directly.
CallGetWaitlistCount ==
    /\ \E outcome \in CountOutcomes(waitlistItems) :
         Called("getWaitlistCount", "count", outcome,
                getWaitlistCountCall(outcome))
    /\ UNCHANGED <<contacts, waitlistItems, nextUuid>>
    /\ NoHandlerStep

\* createWaitlistSubmission(submission) called directly: the count query
\* (awaited before the try block, so its failure leaves the method as it
\* is), then the create.
CallCreateWaitlistSubmission ==
    /\ \E countOutcome \in CountOutcomes(waitlistItems) :
         LET count == getWaitlistCountCall(countOutcome)
             submissionData ==
                 WaitlistSubmissionData(MkId("waitlist", nextUuid), NoField,
                                        "bob@x.com", now,
                                        NextPosition(count.value))
         IN  IF count.threw
             THEN /\ Called("createWaitlistSubmission", "count",
                            countOutcome, Threw(count.error))
                  /\ UNCHANGED waitlistItems
             ELSE \E outcome \in CreateOutcomes(submissionData) :
                    /\ Called("createWaitlistSubmission", "create", outcome,
                              createWaitlistSubmission(outcome))
                    /\ waitlistItems' =
                           IF outcome.ok /\ outcome.value # NoSubmission
                           THEN Append(waitlistItems, outcome.value)
                           ELSE waitlistItems
    /\ nextUuid' = nextUuid + 1
    /\ UNCHANGED contacts
    /\ NoHandlerStep

\* getAllWaitlistSubmissions(status?) called directly.
CallGetAllWaitlistSubmissions ==
    /\ \E status \in WaitlistStatuses \cup {AnyStatus} :
         \E outcome \in WaitlistListOutcomes(waitlistItems, status) :
            Called("getAllWaitlistSubmissions", "query", outcome,
                   getAllWaitlistSubmissions(outcome))
    /\ UNCHANGED <<contacts, waitlistItems, nextUuid>>
    /\ NoHandlerStep

\* ------------------------------------------------ the delay computation

\* The computation of baseDelay, cappedDelay and delayMs in the catch block
\* of retryWithBackoff, for an attempt number and a value of Math.random().
ComputeDelay ==
    /\ \E attempt \in 1..MaxBackoffAttempt, k \in JitterSamples :
          Called("retryWithBackoff", attempt,
                 <<baseDelay(attempt), cappedDelay(attempt)>>,
                 delayMs(attempt, k))
    /\ UNCHANGED <<contacts, waitlistItems, nextUuid>>
    /\ NoHandlerStep

\* --------------------------------------------------------- admin handler

\* What an admin step leaves unchanged: the other handlers and the store.
NoStoreStep ==
    UNCHANGED <<impl, req, confirmSend, notifySend, response, contacts,
                waitlistItems, served, nextUuid, now, faults, unitCall>>

\* adminDashboard up to its first await: the authorization check, then the
\* switch on action and type up to the first DatabaseService call.  action
\* and type are parsed before the check and read after it only, so they
\* are kept for an authorized request only.
AdminRequest ==
    /\ admin.pc \in {"idle", "done"}
    /\ admin.served < MaxAdminRequests
    /\ \E adminKey \in AdminKeys, authHeader \in AuthHeaders :
         LET locals == [IdleAdmin EXCEPT !.adminKey = adminKey,
                                         !.authHeader = authHeader,
                                         !.served = admin.served + 1]
         IN  IF Unauthorized(adminKey, authHeader)
             THEN admin' = [locals EXCEPT
                               !.pc = "done", !.status = 401,
                               !.error = "Invalid or missing authorization"]
             ELSE \E action \in AdminActions, type \in AdminTypes :
                    admin' =
                      IF AdminCalls(action, type) = <<>>
                      THEN [locals EXCEPT !.action = action, !.type = type,
                                          !.pc = "done", !.status = 400,
                                          !.error = "Bad request"]
                      ELSE [locals EXCEPT !.action = action, !.type = type,
                                          !.pc = "query", !.storeCalls = 1]
    /\ NoStoreStep

\* The code that follows an awaited DatabaseService call of the admin
\* handler: a thrown error goes to the outer catch; otherwise the value
\* (the records for `list`, their number or the count for `stats`) is kept
\* and the next call issued or, after the last one, the response returned.
AdminAfterCall(result, isCount) ==
    admin' =
        IF result.threw
        THEN [admin EXCEPT !.pc = "done", !.status = 500,
                           !.error = AdminErrorMessage(result.error)]
        ELSE LET value == IF admin.action = "list" \/ isCount
                          THEN result.value
                          ELSE Len(result.value)
                 kept == [admin EXCEPT !.results = Append(@, value)]
             IN  IF Len(kept.results)
                       = Len(AdminCalls(admin.action, admin.type))
                 THEN [kept EXCEPT !.pc = "done", !.status = 200,
                                   !.success = TRUE]
                 ELSE [kept EXCEPT !.storeCalls = @ + 1]

\* The DatabaseService call the admin handler awaits completes.
AdminStoreDone ==
    /\ admin.pc = "query"
    /\ LET call == AdminCalls(admin.action, admin.type)[admin.storeCalls]
       IN  CASE call.fn = "getAllContactSubmissions" ->
                  \E outcome \in ContactListOutcomes(contacts, call.status) :
                     AdminAfterCall(getAllContactSubmissions(outcome), FALSE)
             [] call.fn = "getWaitlistCount" ->
                  \E outcome \in CountOutcomes(waitlistItems) :
                     AdminAfterCall(getWaitlistCountCall(outcome), TRUE)
             [] OTHER ->
                  \E outcome \in WaitlistListOutcomes(waitlistItems,
                                                      call.status) :
                     AdminAfterCall(getAllWaitlistSubmissions(outcome), FALSE)
    /\ NoStoreStep

\* ---------------------------------------------------------- specification

\* Concurrent requests in the coarse environment.
Next ==
    \E r \in Req :
        \/ ContactRequest(CoarseEnv, r)
        \/ ContactCreateDone(r)
        \/ WaitlistRequest(CoarseEnv, r)
        \/ WaitlistLookupDone(r)
        \/ WaitlistCountDone(r)
        \/ WaitlistCreateDone(r)
        \/ ConfirmCallDone(CoarseEnv, r)
        \/ ConfirmWake(r)
        \/ NotifyCallDone(CoarseEnv, r)
        \/ NotifyWake(r)

Spec == Init /\ [][Next]_vars

\* One request in the full environment, up to the exhaustion of both of
\* its sends.
NextRetry ==
    \/ ContactRequest(FullEnv, 1)
    \/ ContactCreateDone(1)
    \/ WaitlistRequest(FullEnv, 1)
    \/ WaitlistLookupDone(1)
    \/ WaitlistCountDone(1)
    \/ WaitlistCreateDone(1)
    \/ ConfirmCallDone(FullEnv, 1)
    \/ ConfirmWake(1)
    \/ NotifyCallDone(FullEnv, 1)
    \/ NotifyWake(1)

SpecRetry == Init /\ [][NextRetry]_vars

\* Concurrent waitlist signups against a gateway that does not fail (no
\* backoff sleep is ever started).
NextSignups ==
    \E r \in Req :
        \/ WaitlistRequest(SignupEnv, r)
        \/ WaitlistLookupDone(r)
        \/ WaitlistCountDone(r)
        \/ WaitlistCreateDone(r)
        \/ ConfirmCallDone(SignupEnv, r)
        \/ NotifyCallDone(SignupEnv, r)

SpecSignups == Init /\ [][NextSignups]_vars

\* One waitlist signup over an existing store.
NextStored ==
    \/ WaitlistRequest(StoredEnv, 1)
    \/ WaitlistLookupDone(1)
    \/ WaitlistCountDone(1)
    \/ WaitlistCreateDone(1)
    \/ ConfirmCallDone(StoredEnv, 1)
    \/ NotifyCallDone(StoredEnv, 1)

SpecStored == InitStored /\ [][NextStored]_vars

\* One direct call of a DatabaseService method over existing containers.
NextCalls ==
    \/ CallCreateContactSubmission
    \/ CallGetContactSubmission
    \/ CallGetAllContactSubmissions
    \/ CallGetWaitlistSubmissionByEmail
    \/ CallGetWaitlistCount
    \/ CallCreateWaitlistSubmission
    \/ CallGetAllWaitlistSubmissions

SpecCalls == InitCalls /\ [][NextCalls]_vars

\* Contact and waitlist requests one after the other, and invocations of
\* the admin handler at any time in between.
NextAdmin ==
    \/ ContactRequest(AdminEnv, 1)
    \/ ContactCreateDone(1)
    \/ WaitlistRequest(AdminEnv, 1)
    \/ WaitlistLookupDone(1)
    \/ WaitlistCountDone(1)
    \/ WaitlistCreateDone(1)
    \/ ConfirmCallDone(AdminEnv, 1)
    \/ NotifyCallDone(AdminEnv, 1)
    \/ AdminRequest
    \/ AdminStoreDone

SpecAdmin == Init /\ [][NextAdmin]_vars

\* The delay computation of retryWithBackoff on its own.
NextBackoff == ComputeDelay

SpecBackoff == Init /\ [][NextBackoff]_vars

\* The completion of what the invocation of slot r awaits: a store call,
\* a gateway call or a backoff sleep.
Completion(g, r) ==
    \/ ContactCreateDone(r)
    \/ WaitlistLookupDone(r)
    \/ WaitlistCountDone(r)
    \/ WaitlistCreateDone(r)
    \/ ConfirmCallDone(g, r)
    \/ ConfirmWake(r)
    \/ NotifyCallDone(g, r)
    \/ NotifyWake(r)

\* Concurrent requests whose awaited calls and sleeps all complete.
NextFair ==
    \E r \in Req :
        \/ ContactRequest(LiveEnv, r)
        \/ WaitlistRequest(LiveEnv, r)
        \/ Completion(LiveEnv, r)

SpecFair ==
    /\ Init
    /\ [][NextFair]_vars
    /\ \A r \in Req : WF_vars(Completion(LiveEnv, r))

\* Waitlist signups one after the other: a signup is received once the
\* one before it has run to its end.
NextSequence ==
    \/ WaitlistRequest(SignupEnv, 1)
    \/ WaitlistLookupDone(1)
    \/ WaitlistCountDone(1)
    \/ WaitlistCreateDone(1)
    \/ ConfirmCallDone(SignupEnv, 1)
    \/ NotifyCallDone(SignupEnv, 1)

SpecSequence == Init /\ [][NextSequence]_vars

\* ----------------------------------------------------------------- claims

\* The container a request's record goes to.
StoreOf(r) == IF req[r].kind = "contact" THEN contacts ELSE waitlistItems

\* The record request r set out to create is in the store.
Persisted(r) ==
    /\ req[r].data.id # NoId
    /\ \E i \in 1..Len(StoreOf(r)) : StoreOf(r)[i] = req[r].data

\* Number of gateway sends request r has started.
GatewayCalls(r) == confirmSend[r].run.calls + notifySend[r].run.calls

\* Every retry run of the state.
Runs == {confirmSend[r].run : r \in Req} \cup {notifySend[r].run : r \in Req}

\* An error that carries an HTTP-like status code of the given set.
CarriesStatus(error, codes) ==
    error.hasStatusCode /\ error.statusCode \in codes

\* The classification the specification gives: non-retryable is an error
\* carrying status 400, 401, 403 or 404.
SpecNonRetryable(error) == CarriesStatus(error, {400, 401, 403, 404})

AllRetryable(errs) == \A i \in 1..Len(errs) : ~SpecNonRetryable(errs[i])

\* C1: within one request no gateway send (confirmation or admin
\* notification) is started before the store's create of that request has
\* completed successfully, whatever the other requests do meanwhile: a
\* request that has started a gateway send has its record in the store and
\* holds the record the store returned.
C1_PersistBeforeNotify ==
    \A r \in Req :
        GatewayCalls(r) > 0 =>
            /\ Persisted(r)
            /\ req[r].submission = req[r].data

\* C1 witness: a request has started a gateway send while another request
\* is in the middle of its own store calls.
C1_Witness ==
    \E r, q \in Req :
        /\ r # q
        /\ GatewayCalls(r) > 0
        /\ req[q].pc \in {"create", "lookup", "count", "wcreate"}

\* C2: when operation() fails with a retryable error on every attempt, it
\* is invoked exactly MAX_RETRIES times and the run then throws the error
\* of the last attempt: a run whose failures were all retryable has thrown
\* exactly when it has seen MAX_RETRIES of them, and then it has made
\* MAX_RETRIES invocations and thrown the last error seen.
C2_ExhaustedThrowsLast ==
    \A run \in Runs :
        (AllRetryable(run.errs) /\ run.st # "returned") =>
            /\ (run.st = "thrown") <=> (Len(run.errs) = MAX_RETRIES)
            /\ run.st = "thrown" =>
                   /\ run.calls = MAX_RETRIES
                   /\ run.thrown = run.errs[MAX_RETRIES]

\* C2 witness: a run exhausted by retryable failures whose first and last
\* errors differ.
C2_Witness ==
    \E run \in Runs :
        /\ run.st = "thrown"
        /\ Len(run.errs) = MAX_RETRIES
        /\ AllRetryable(run.errs)
        /\ run.errs[1] # run.errs[MAX_RETRIES]

\* C3: a run whose operation first succeeds on attempt k, after k-1
\* retryable failures, returns with exactly k invocations made (two for
\* fail-once-then-succeed), and nothing of a returned run changes any more
\* (no invocation follows a success).  A run that made one invocation more
\* than it saw failures and is not awaiting that invocation has returned.
C3_SuccessStopsRetry ==
    /\ [](\A run \in Runs :
            /\ run.st = "returned" =>
                   /\ run.calls = Len(run.errs) + 1
                   /\ run.calls = run.attempt
                   /\ run.calls \in 1..MAX_RETRIES
                   /\ AllRetryable(run.errs)
                   /\ Len(run.errs) = 1 => run.calls = 2
            /\ (run.calls = Len(run.errs) + 1 /\ run.st # "calling") =>
                   run.st = "returned")
    /\ [][\A r \in Req :
            /\ confirmSend[r].run.st = "returned" =>
                   confirmSend'[r].run = confirmSend[r].run
            /\ notifySend[r].run.st = "returned" =>
                   notifySend'[r].run = notifySend[r].run]_vars

\* C3 witness: a run that returned on its second attempt.
C3_Witness ==
    \E run \in Runs :
        run.st = "returned" /\ Len(run.errs) = 1 /\ run.calls = 2

\* C4: a failure with status 400, 401, 403 or 404 ends the run: it is the
\* last failure the run sees, the run throws that very error, no sleep
\* follows it (the run has slept once per earlier failure only) and no
\* further invocation is made; when it comes on the first attempt the
\* operation has been invoked exactly once.  A thrown run never changes.
C4_NonRetryableAborts ==
    /\ [](\A run \in Runs : \A i \in 1..Len(run.errs) :
            SpecNonRetryable(run.errs[i]) =>
                /\ i = Len(run.errs)
                /\ run.st = "thrown"
                /\ run.thrown = run.errs[i]
                /\ run.calls = i
                /\ run.waits = i - 1
                /\ run.delay = 0)
    /\ [][\A r \in Req :
            /\ confirmSend[r].run.st = "thrown" =>
                   confirmSend'[r].run = confirmSend[r].run
            /\ notifySend[r].run.st = "thrown" =>
                   notifySend'[r].run = notifySend[r].run]_vars

\* C4 witness: a run aborted by a 404 on its first attempt.
C4_Witness ==
    \E run \in Runs :
        /\ run.errs = <<RestError(404)>>
        /\ run.st = "thrown"
        /\ run.calls = 1

\* C5: once the retry run of a send has thrown (attempts exhausted or a
\* non-retryable abort), the confirmation send is rejected with an Error
\* that wraps the cause (its message, or 'Unknown error' for a value that
\* is no Error), whereas the admin notification send is resolved; the
\* promise of an admin notification send is never rejected.
C5_CriticalPropagatesNonCriticalSwallows ==
    \A r \in Req :
        /\ confirmSend[r].run.st = "thrown" =>
               /\ confirmSend[r].outcome = "rejected"
               /\ confirmSend[r].error.isError
               /\ confirmSend[r].error.cause =
                      (IF confirmSend[r].run.thrown.isError
                       THEN confirmSend[r].run.thrown.message
                       ELSE "Unknown error")
        /\ notifySend[r].run.st = "thrown" => notifySend[r].outcome = "resolved"
        /\ notifySend[r].outcome # "rejected"

\* C5 witness: an admin notification send whose retry run was exhausted.
C5_Witness ==
    \E r \in Req :
        /\ notifySend[r].run.st = "thrown"
        /\ Len(notifySend[r].run.errs) = MAX_RETRIES
        /\ notifySend[r].outcome = "resolved"

\* A notification of request r has failed for good: its confirmation send
\* was rejected or the retry run of its admin notification has thrown.
NotificationFailed(r) ==
    \/ confirmSend[r].outcome = "rejected"
    \/ notifySend[r].run.st = "thrown"

\* The records of request r's container that carry the id it generated.
RecordsOf(r) ==
    {i \in 1..Len(StoreOf(r)) : StoreOf(r)[i].id = req[r].data.id}

\* C6: a notification failure (confirmation or admin notification,
\* exhausted or non-retryable) never removes or changes the record the
\* request persisted: from the failure on, also after the response, the
\* store holds exactly one record with the request's id and it equals the
\* record the store returned to the handler.
C6_FailureKeepsRecord ==
    \A r \in Req :
        NotificationFailed(r) =>
            /\ Cardinality(RecordsOf(r)) = 1
            /\ \A i \in RecordsOf(r) : StoreOf(r)[i] = req[r].submission

\* C6 witness: a handler has responded after its confirmation send was
\* exhausted by retryable failures.
C6_Witness ==
    \E r \in Req :
        /\ response[r] # NoResponse
        /\ confirmSend[r].outcome = "rejected"
        /\ Len(confirmSend[r].run.errs) = MAX_RETRIES

\* C7: a degraded success is distinguishable from a total failure: a
\* response given after a rejected confirmation send carries the id and
\* the email of the persisted record together with an error flag
\* (success = false and an error text), and a failure response that carries
\* no id/email comes from a request that persisted no record.
C7_DegradedDistinguishable ==
    \A r \in Req :
        response[r] # NoResponse =>
            /\ confirmSend[r].outcome = "rejected" =>
                   /\ Persisted(r)
                   /\ response[r].data.present
                   /\ response[r].data.submissionId = req[r].data.id
                   /\ response[r].data.email = req[r].data.email
                   /\ ~response[r].success
                   /\ response[r].error # ""
            /\ (~response[r].success /\ ~response[r].data.present) =>
                   /\ RecordsOf(r) = {}
                   /\ req[r].submission = NoSubmission

\* C7 witness: one request answered with a degraded success and another
\* with a total failure of the store.
C7_Witness ==
    \E r, q \in Req :
        /\ confirmSend[r].outcome = "rejected"
        /\ response[r].data.present
        /\ response[q].status \in {500, 503}
        /\ ~response[q].data.present

\* C8: the outcome of the admin notification never affects the response:
\* once the record is persisted and the confirmation send resolved, the
\* response of a contact or waitlist handler, when given, is the success
\* response (200, success = true, the persisted record's id), it is given
\* by the contact handler at once and by the waitlist handler once the
\* notification's retry run has ended either way, and a response given
\* never changes for as long as its invocation or a send it dispatched
\* lasts (a slot's response is reset only when the slot takes a new
\* invocation).
C8_NotifyOutcomeInvisible ==
    /\ [](\A r \in Req :
            confirmSend[r].outcome = "resolved" =>
                /\ response[r] # NoResponse =>
                       /\ response[r].status = 200
                       /\ response[r].success
                       /\ response[r].data.present
                       /\ response[r].data.submissionId = req[r].data.id
                       /\ Persisted(r)
                /\ (req[r].kind = "contact"
                      \/ notifySend[r].run.st \in {"returned", "thrown"}) =>
                       response[r] # NoResponse)
    /\ [][\A r \in Req :
            (response[r] # NoResponse
                /\ ~(Available(r) /\ served' = served + 1)) =>
                    response'[r] = response[r]]_vars

\* C8 witness: a waitlist request answered with success although its admin
\* notification was aborted by a non-retryable error, next to a contact
\* request answered with success whose admin notification failed, was
\* retried and failed for good.
C8_Witness ==
    \E r, q \in Req :
        /\ req[r].kind = "waitlist"
        /\ notifySend[r].run.st = "thrown"
        /\ Len(notifySend[r].run.errs) = 1
        /\ response[r].success
        /\ req[q].kind = "contact"
        /\ notifySend[q].run.st = "thrown"
        /\ Len(notifySend[q].run.errs) > 1
        /\ response[q].success

EmailKey(raw) == IF raw = "Jane@X.com" THEN "jane@x.com" ELSE raw

\* The waitlist records that carry the email request r signs up.
ExistingFor(r) ==
    {x \in Range(waitlistItems) : x.email = EmailKey(req[r].rawEmail)}

\* C10: a waitlist signup for an email that already has a waitlist record
\* (when its lookup completes) creates no record and sends no email, and,
\* unless the lookup itself fails, is answered 200 with success = true and
\* the id, email and position of an existing record of that email; a
\* request answered that way has generated no id, created no record and
\* started no send.
C10_DuplicateSignup ==
    /\ [][\A r \in Req :
            (req[r].pc = "lookup" /\ req'[r].pc # "lookup"
               /\ ExistingFor(r) # {}) =>
                /\ waitlistItems' = waitlistItems
                /\ contacts' = contacts
                /\ confirmSend'[r] = NoSend /\ notifySend'[r] = NoSend
                /\ req'[r].pc = "done"
                /\ \/ response'[r].status \in {500, 503}
                   \/ /\ response'[r].status = 200
                      /\ response'[r].success
                      /\ \E x \in ExistingFor(r) :
                           /\ response'[r].data.present
                           /\ response'[r].data.submissionId = x.id
                           /\ response'[r].data.email = x.email
                           /\ response'[r].data.position = x.position]_vars
    /\ [](\A r \in Req :
            (req[r].kind = "waitlist" /\ req[r].pc = "done"
               /\ response[r].success /\ req[r].submission = NoSubmission) =>
                /\ req[r].data.id = NoId
                /\ GatewayCalls(r) = 0
                /\ \E x \in ExistingFor(r) :
                       response[r].data.submissionId = x.id)

\* C10 witness: a signup with the address in another letter case than the
\* record it duplicates has been answered with that record.
C10_Witness ==
    \E r \in Req :
        /\ req[r].kind = "waitlist"
        /\ req[r].pc = "done"
        /\ response[r].success
        /\ req[r].submission = NoSubmission
        /\ req[r].rawEmail = "Jane@X.com"
        /\ response[r].data.email = "jane@x.com"
        /\ Len(waitlistItems) = 1

\* C11: in every reachable state of the store, whatever the interleaving of
\* concurrent waitlist requests, no two waitlist records with status
\* "active" have the same email.
C11_OneActivePerEmail ==
    \A i, j \in 1..Len(waitlistItems) :
        (/\ i # j
         /\ waitlistItems[i].status = "active"
         /\ waitlistItems[j].status = "active") =>
            waitlistItems[i].email # waitlistItems[j].email

PersistedPositions == {waitlistItems[i].position : i \in 1..Len(waitlistItems)}

PendingPositions ==
    {req[q].data.position : q \in {x \in Req : req[x].pc = "wcreate"}}

RECURSIVE ActiveCount(_)
ActiveCount(items) ==
    IF items = <<>> THEN 0
    ELSE (IF Head(items).status = "active" THEN 1 ELSE 0)
             + ActiveCount(Tail(items))

\* C13: createWaitlistSubmission assigns position = (number of records with
\* status "active" in the store when its count query completes) + 1, for
\* every count: 5 active records give position 6, an empty waitlist gives
\* position 1, and every position assigned or persisted is a positive
\* integer.
C13_PositionIsActiveCountPlusOne ==
    /\ [](/\ \A i \in 1..Len(waitlistItems) : waitlistItems[i].position >= 1
          /\ \A r \in Req :
                req[r].pc = "wcreate" => req[r].data.position >= 1)
    /\ [][\A r \in Req :
            (req[r].pc = "count" /\ req'[r].pc = "wcreate") =>
                /\ req'[r].data.position = ActiveCount(waitlistItems) + 1
                /\ (waitlistItems = <<>> => req'[r].data.position = 1)
                /\ (ActiveCount(waitlistItems) = 5 =>
                       req'[r].data.position = 6)]_vars

\* C13 witness: a signup assigned position 6 over a store of six records
\* of which five are active.
C13_Witness ==
    \E r \in Req :
        /\ req[r].pc = "wcreate"
        /\ Len(waitlistItems) = 6
        /\ ActiveCount(waitlistItems) = 5
        /\ req[r].data.position = 6

\* C14: an error is classified non-retryable exactly when it carries a
\* status code in {400, 401, 403, 404}: the i-th failure of a retry run ends
\* the run at once, without a backoff sleep, exactly when it carries such a
\* code; every other failure (another status code, no status code, a
\* transport error, a value that is not an object) is followed by a backoff
\* sleep while attempts remain and ends the run only as the MAX_RETRIES-th
\* failure.
C14_NonRetryableExactly ==
    \A run \in Runs :
        \A i \in 1..Len(run.errs) :
            IF CarriesStatus(run.errs[i], {400, 401, 403, 404})
            THEN /\ i = Len(run.errs)
                 /\ run.st = "thrown"
                 /\ run.thrown = run.errs[i]
                 /\ run.waits = i - 1
                 /\ run.calls = i
            ELSE IF i < MAX_RETRIES
                 THEN run.waits >= i
                 ELSE /\ run.st = "thrown"
                      /\ run.waits = MAX_RETRIES - 1
                      /\ run.calls = MAX_RETRIES

\* C14 witness: a run that was retried after an error without a status code
\* and after a thrown value that is not an object, and was exhausted by an
\* error with status 429.
C14_Witness ==
    \E run \in Runs :
        /\ run.st = "thrown"
        /\ run.errs = <<TransportError, ThrownString, RestError(429)>>

\* C16: whatever the outcomes of the operation, a retryWithBackoff run
\* invokes it at least once and at most MAX_RETRIES times, its attempts are
\* numbered 1..MAX_RETRIES (the attempt number is the number of
\* invocations), it goes on only while fewer than MAX_RETRIES invocations
\* have failed, and it ends either returned (after a successful invocation)
\* or thrown with an error the operation threw, never without a value.
C16_AttemptsBounded ==
    \A run \in Runs :
        run.st # "none" =>
            /\ run.calls \in 1..MAX_RETRIES
            /\ run.attempt = run.calls
            /\ run.st \in {"calling", "sleeping", "returned", "thrown"}
            /\ run.st = "calling" => Len(run.errs) = run.calls - 1
            /\ run.st = "sleeping" =>
                   Len(run.errs) = run.calls /\ run.calls < MAX_RETRIES
            /\ run.st = "returned" =>
                   Len(run.errs) = run.calls - 1 /\ run.thrown = NoError
            /\ run.st = "thrown" =>
                   /\ Len(run.errs) = run.calls
                   /\ run.thrown # NoError
                   /\ run.thrown = run.errs[Len(run.errs)]

\* C16 witness: a run that returned from its last attempt, followed by a
\* run that threw after a single invocation.
C16_Witness ==
    \E r \in Req :
        /\ confirmSend[r].run.st = "returned"
        /\ confirmSend[r].run.calls = MAX_RETRIES
        /\ notifySend[r].run.st = "thrown"
        /\ notifySend[r].run.calls = 1

\* capped = min(initialDelay * multiplier^a, maxDelay), as the specification
\* of the backoff scheduler gives it.
SpecCapped(a) ==
    LET base == INITIAL_DELAY_MS * (BACKOFF_MULTIPLIER ^ a)
    IN  IF base < MAX_DELAY_MS THEN base ELSE MAX_DELAY_MS

\* C15: the delay of the backoff sleep that follows failed attempt a lies
\* within [capped * (1 - 0.25), capped * (1 + 0.25)] with capped =
\* min(1000 * 2^a, 30000) and is never negative: within [1500, 2500] ms
\* after attempt 1 and within [3000, 5000] ms after attempt 2 (the exponent
\* is the attempt number, not attempt - 1).
C15_DelayWithinJitterBand ==
    \A run \in Runs :
        run.st = "sleeping" =>
            /\ run.delay >= 0
            /\ 100 * run.delay >=
                   SpecCapped(run.attempt) * (100 - JITTER_PERCENTAGE_X100)
            /\ 100 * run.delay <=
                   SpecCapped(run.attempt) * (100 + JITTER_PERCENTAGE_X100)
            /\ run.attempt = 1 => run.delay \in 1500..2500
            /\ run.attempt = 2 => run.delay \in 3000..5000

\* C15 witness: the sleeps after attempt 1 and after attempt 2 with the
\* jitter at its lower end (Math.random() = 0): 1500 ms and 3000 ms.
C15_Witness ==
    \E r \in Req :
        /\ confirmSend[r].run.st = "returned"
        /\ confirmSend[r].run.waits = 1
        /\ notifySend[r].run.st = "sleeping"
        /\ notifySend[r].run.attempt = 2
        /\ notifySend[r].run.delay = 3000

\* The DatabaseService methods that hand every backend failure on.
PropagatingMethods ==
    {"createContactSubmission", "createWaitlistSubmission",
     "getWaitlistCount", "getWaitlistSubmissionByEmail",
     "getAllContactSubmissions", "getAllWaitlistSubmissions"}

\* C17: contact create, waitlist count, waitlist create, find-by-email and
\* the two list operations hand a failure of the backend on to their caller
\* unchanged and never turn it into a normal return value (a method returns
\* normally only when its backend calls succeeded); when the count query
\* inside createWaitlistSubmission fails, that error is thrown and no record
\* is written.
C17_StoreErrorsPropagate ==
    /\ [](unitCall.fn \in PropagatingMethods =>
            /\ ~unitCall.outcome.ok =>
                   /\ unitCall.result.threw
                   /\ unitCall.result.error = unitCall.outcome.error
            /\ ~unitCall.result.threw => unitCall.outcome.ok)
    /\ [][(/\ unitCall'.fn = "createWaitlistSubmission"
            /\ unitCall.fn = "none"
            /\ unitCall'.result.threw) =>
               waitlistItems' = waitlistItems]_vars

\* C17 witness: createWaitlistSubmission called on a store that holds
\* records, its count query failed.
C17_Witness ==
    /\ unitCall.fn = "createWaitlistSubmission"
    /\ unitCall.query = "count"
    /\ ~unitCall.outcome.ok
    /\ unitCall.result.threw
    /\ Len(waitlistItems) = MaxCallStored

\* C18: the point lookups return null exactly when no record matches:
\* getContactSubmission when the read gives no resource or fails with a
\* Cosmos error of code 404, getWaitlistSubmissionByEmail when its query
\* yields no record; a record found is returned, and every other failure
\* of the backend is thrown unchanged.
C18_AbsentIsNull ==
    /\ unitCall.fn = "getContactSubmission" =>
           IF unitCall.outcome.ok
           THEN /\ ~unitCall.result.threw
                /\ unitCall.result.isNull <=>
                       unitCall.outcome.value = NoSubmission
                /\ ~unitCall.result.isNull =>
                       unitCall.result.value = unitCall.outcome.value
           ELSE IF /\ unitCall.outcome.error.hasCode
                   /\ unitCall.outcome.error.code = 404
                THEN ~unitCall.result.threw /\ unitCall.result.isNull
                ELSE /\ unitCall.result.threw
                     /\ unitCall.result.error = unitCall.outcome.error
    /\ unitCall.fn = "getWaitlistSubmissionByEmail" =>
           IF unitCall.outcome.ok
           THEN /\ ~unitCall.result.threw
                /\ unitCall.result.isNull <=> unitCall.outcome.value = {}
                /\ ~unitCall.result.isNull =>
                       unitCall.result.value \in unitCall.outcome.value
           ELSE /\ unitCall.result.threw
                /\ unitCall.result.error = unitCall.outcome.error

\* C18 witness: getContactSubmission called on a container that holds
\* records, the read failed with a Cosmos error of code 404 and null was
\* returned.
C18_Witness ==
    /\ unitCall.fn = "getContactSubmission"
    /\ ~unitCall.outcome.ok
    /\ unitCall.outcome.error = CosmosError(404, "Resource Not Found")
    /\ unitCall.result.isNull
    /\ contacts # <<>>

\* The records of a container with the id of the record request r holds.
WithIdOf(items, r) ==
    {i \in 1..Len(items) : items[i].id = req[r].submission.id}

\* C19: a waitlist signup for an email not yet on the waitlist, with the
\* store and the email gateway succeeding (the handler got its record from
\* the store and no gateway call failed), has persisted exactly one new
\* record, has sent the confirmation email for it, and, once answered, is
\* answered with success = true carrying that record's id, email and
\* position.
C19_SignupSucceeds ==
    \A r \in Req :
        (/\ req[r].kind = "waitlist"
         /\ req[r].submission # NoSubmission
         /\ faults = 0) =>
            /\ Cardinality(WithIdOf(waitlistItems, r)) = 1
            /\ \A i \in WithIdOf(waitlistItems, r) :
                   waitlistItems[i] = req[r].submission
            /\ confirmSend[r].run.st \in {"calling", "returned"}
            /\ req[r].pc = "done" =>
                   /\ confirmSend[r].run.st = "returned"
                   /\ response[r].success
                   /\ response[r].data.present
                   /\ response[r].data.submissionId = req[r].submission.id
                   /\ response[r].data.email = req[r].submission.email
                   /\ response[r].data.position = req[r].submission.position

\* What C20 holds of the contact request of slot r whose record the store
\* returned, given the email the record is to carry.
ContactPersistedAndConfirmed(r, email) ==
    /\ Cardinality(WithIdOf(contacts, r)) = 1
    /\ \A i \in WithIdOf(contacts, r) : contacts[i] = req[r].submission
    /\ req[r].submission.status = "new"
    /\ req[r].submission.id.prefix = "contact"
    /\ req[r].submission.email = email
    /\ confirmSend[r].outcome # "none"
    /\ confirmSend[r].outcome = "resolved" =>
           /\ response[r].success
           /\ response[r].data.present
           /\ response[r].data.submissionId = req[r].submission.id
           /\ response[r].data.email = req[r].submission.email

\* C20 as stated: for every valid contact submission with the store
\* available, exactly one contact record is persisted with status "new", a
\* generated id and the submitted email, the confirmation send is invoked
\* with the record the store returned, and if that send succeeds the
\* response is success = true with that record's id and email.
C20_ContactPersistedAsSubmitted ==
    \A r \in Req :
        (req[r].kind = "contact" /\ req[r].submission # NoSubmission) =>
            ContactPersistedAndConfirmed(r, req[r].rawEmail)

\* C20 amended: the same, the record (and the response) carrying the
\* submitted email trimmed and in lower case; and the container grows only
\* by the record of a contact request whose create completes, one record
\* with a fresh id at a time.
C20_ContactPersistedNormalized ==
    /\ [](\A r \in Req :
            (req[r].kind = "contact" /\ req[r].submission # NoSubmission) =>
                ContactPersistedAndConfirmed(r, EmailKey(req[r].rawEmail)))
    /\ [][contacts' # contacts =>
            \E r \in Req :
                /\ req[r].kind = "contact"
                /\ req[r].pc = "create"
                /\ req'[r].submission # NoSubmission
                /\ contacts' = Append(contacts, req'[r].submission)
                /\ \A i \in 1..Len(contacts) :
                       contacts[i].id # req'[r].submission.id]_vars

\* C20 witness: two contact requests for "Jane@X.com", both persisted as
\* "jane@x.com" and both answered with success.
C20_Witness ==
    /\ Len(contacts) = 2
    /\ \A r \in Req :
           /\ req[r].kind = "contact"
           /\ req[r].rawEmail = "Jane@X.com"
           /\ req[r].submission.email = "jane@x.com"
           /\ confirmSend[r].outcome = "resolved"
           /\ response[r].success

\* The ids of the records of a container, in creation order.
IdsOf(items) == [i \in 1..Len(items) |-> items[i].id]

\* No value occurs twice in the sequence s.
Distinct(s) == \A i, j \in 1..Len(s) : i # j => s[i] # s[j]

\* C21: every successful create (contact or waitlist) adds one record whose
\* id differs from the id of every record already in the store, so the ids
\* of all records of the store are pairwise different in every reachable
\* state; contact creation enforces no uniqueness on email: two contact
\* requests in progress or answered whose records the store returned hold
\* two records of different ids, both in the store, also when their emails
\* are the same.
C21_IdsUnique ==
    /\ [](/\ Distinct(IdsOf(contacts) \o IdsOf(waitlistItems))
          /\ \A r, q \in Req :
                (/\ r # q
                 /\ req[r].kind = "contact" /\ req[q].kind = "contact"
                 /\ req[r].submission # NoSubmission
                 /\ req[q].submission # NoSubmission) =>
                    /\ req[r].submission.id # req[q].submission.id
                    /\ req[r].submission \in Range(contacts)
                    /\ req[q].submission \in Range(contacts))
    /\ [][/\ contacts' # contacts =>
               /\ Len(contacts') = Len(contacts) + 1
               /\ \A x \in Range(contacts) \cup Range(waitlistItems) :
                      x.id # contacts'[Len(contacts')].id
          /\ waitlistItems' # waitlistItems =>
               /\ Len(waitlistItems') = Len(waitlistItems) + 1
               /\ \A x \in Range(contacts) \cup Range(waitlistItems) :
                      x.id # waitlistItems'[Len(waitlistItems')].id]_vars

\* C21 witness: two contact records with the same email and different ids.
C21_Witness ==
    /\ Len(contacts) = 2
    /\ contacts[1].email = contacts[2].email
    /\ contacts[1].id # contacts[2].id

\* Every record of items is still in items2, at its place and with its id,
\* position and submittedAt.
KeepsRecords(items, items2) ==
    /\ Len(items2) >= Len(items)
    /\ \A i \in 1..Len(items) :
          /\ items2[i].id = items[i].id
          /\ items2[i].position = items[i].position
          /\ items2[i].submittedAt = items[i].submittedAt

\* C22: once a record is persisted, no step of the contact, waitlist or
\* admin handlers changes its id, position or submittedAt or deletes it:
\* across every step both containers keep all their records, so the set of
\* stored records only grows and each record keeps the id and position it
\* was created with.
C22_RecordsImmutable ==
    [][/\ KeepsRecords(contacts, contacts')
       /\ KeepsRecords(waitlistItems, waitlistItems')]_vars

\* C22 witness: the store holds two records, the request that created the
\* second one was answered with an error after its confirmation send
\* failed, and the admin handler has answered a `stats` request.
C22_Witness ==
    /\ Len(contacts) + Len(waitlistItems) = 2
    /\ served = 2
    /\ confirmSend[1].outcome = "rejected"
    /\ response[1].status = 500
    /\ admin.pc = "done"
    /\ admin.action = "stats"
    /\ admin.status = 200

\* The condition on which the specification has an admin request refused:
\* ADMIN_API_KEY is unset or the Authorization header is not exactly
\* 'Bearer <ADMIN_API_KEY>'.
SpecRefused(adminKey, authHeader) ==
    \/ adminKey = NoAdminKey
    \/ authHeader = NoHeader
    \/ authHeader # "Bearer " \o adminKey

\* C23: an admin request whose Authorization header is not exactly
\* 'Bearer <ADMIN_API_KEY>', and any admin request when ADMIN_API_KEY is
\* unset, is answered 401 with success = false at once and has issued no
\* store call; the step that receives it changes neither container.
C23_UnauthorizedIs401 ==
    /\ [](( /\ admin.pc # "idle"
            /\ SpecRefused(admin.adminKey, admin.authHeader)) =>
               /\ admin.pc = "done"
               /\ admin.status = 401
               /\ ~admin.success
               /\ admin.storeCalls = 0
               /\ admin.results = <<>>)
    /\ [][( /\ admin'.served = admin.served + 1
            /\ SpecRefused(admin'.adminKey, admin'.authHeader)) =>
               /\ contacts' = contacts
               /\ waitlistItems' = waitlistItems]_vars

\* C23 witness: over a store that holds a record, with ADMIN_API_KEY unset,
\* a request with the header 'Bearer undefined' has been answered 401.
C23_Witness ==
    /\ admin.pc = "done"
    /\ admin.adminKey = NoAdminKey
    /\ admin.authHeader = "Bearer undefined"
    /\ admin.status = 401
    /\ contacts # <<>>

\* C24: two concurrent waitlist signups can both read the same active count
\* before either writes, and both records are then persisted with the same
\* position.  A count query that completes while another signup has
\* counted the same store and not yet written gives the same position as
\* that signup holds, and a create that succeeds persists the record with
\* the position its signup holds, whether or not another record or signup
\* has it too.
C24_SameCountSamePosition ==
    [][\A r, q \in Req :
         /\ (/\ r # q
             /\ req[r].pc = "wcreate"
             /\ req[r].data.position = ActiveCount(waitlistItems) + 1
             /\ req[q].pc = "count"
             /\ req'[q].pc = "wcreate") =>
                /\ req'[q].data.position = req[r].data.position
                /\ req'[r] = req[r]
         /\ (/\ req[r].pc = "wcreate"
             /\ req'[r].submission # NoSubmission) =>
                /\ waitlistItems' = Append(waitlistItems, req'[r].submission)
                /\ req'[r].submission.position = req[r].data.position]_vars

\* C24 witness: two waitlist records with different ids and different
\* emails that share one position.
C24_Witness ==
    \E i, j \in 1..Len(waitlistItems) :
        /\ i < j
        /\ waitlistItems[i].id # waitlistItems[j].id
        /\ waitlistItems[i].email # waitlistItems[j].email
        /\ waitlistItems[i].position = waitlistItems[j].position

\* What C25 holds of the step that takes a retry run from run to next.
BackoffStep(run, next) ==
    /\ (run.st = "sleeping" /\ next # run) =>
           /\ next.st = "calling"
           /\ next.attempt = run.attempt + 1
           /\ next.calls = run.calls + 1
           /\ next.waits = run.waits
    /\ (run.st # "none" /\ next.st # "none" /\ next.waits # run.waits) =>
           /\ run.st = "calling"
           /\ next.st = "sleeping"
           /\ next.waits = run.waits + 1
           /\ next.attempt = run.attempt

\* C25: a backoff wait occurs only after a retryable failure on an attempt
\* a < MAX_RETRIES, its delay is the one of attempt number a (within the
\* jitter band around min(1000 * 2^a, 30000)), and the only step that
\* follows it is the invocation of attempt a + 1; no wait follows a success,
\* a non-retryable failure or the last attempt (a run that has ended has
\* waited once per attempt before its last one), so a run waits at most
\* MAX_RETRIES - 1 times.
C25_WaitOnlyBetweenAttempts ==
    /\ [](\A run \in Runs :
            /\ run.waits <= MAX_RETRIES - 1
            /\ run.st = "sleeping" =>
                   /\ run.attempt < MAX_RETRIES
                   /\ Len(run.errs) = run.attempt
                   /\ ~SpecNonRetryable(run.errs[run.attempt])
                   /\ run.waits = run.attempt
                   /\ 100 * run.delay >= SpecCapped(run.attempt)
                                           * (100 - JITTER_PERCENTAGE_X100)
                   /\ 100 * run.delay <= SpecCapped(run.attempt)
                                           * (100 + JITTER_PERCENTAGE_X100)
            /\ run.st \in {"calling", "returned", "thrown"} =>
                   run.waits = run.attempt - 1)
    /\ [][\A r \in Req :
            /\ BackoffStep(confirmSend[r].run, confirmSend'[r].run)
            /\ BackoffStep(notifySend[r].run, notifySend'[r].run)]_vars

\* C25 witness: a confirmation send that succeeded on its last attempt
\* after two waits, followed by an admin notification send that a
\* non-retryable failure ended without a wait.
C25_Witness ==
    \E r \in Req :
        /\ confirmSend[r].run.st = "returned"
        /\ confirmSend[r].run.waits = MAX_RETRIES - 1
        /\ notifySend[r].run.st = "thrown"
        /\ notifySend[r].run.waits = 0
        /\ SpecNonRetryable(notifySend[r].run.thrown)

\* What C26 holds of a send whose first gateway failure is non-retryable.
OneCallOnly(send) ==
    (send.run.errs # <<>> /\ SpecNonRetryable(send.run.errs[1])) =>
        /\ send.run.calls = 1
        /\ send.run.waits = 0
        /\ send.run.st = "thrown"
        /\ send.run.thrown = send.run.errs[1]

\* C26: a non-retryable first failure of the gateway ends the retries of
\* either send class: the confirmation send and the admin notification send
\* have then each made exactly one gateway call and waited for no backoff;
\* the confirmation send is rejected to the handler, the admin notification
\* send is resolved.
C26_NonRetryableShortCircuits ==
    \A r \in Req :
        /\ OneCallOnly(confirmSend[r])
        /\ OneCallOnly(notifySend[r])
        /\ (confirmSend[r].run.errs # <<>>
              /\ SpecNonRetryable(confirmSend[r].run.errs[1])) =>
                 /\ confirmSend[r].outcome = "rejected"
                 /\ notifySend[r] = NoSend
        /\ (notifySend[r].run.errs # <<>>
              /\ SpecNonRetryable(notifySend[r].run.errs[1])) =>
                 notifySend[r].outcome = "resolved"

\* C26 witness: one request whose confirmation send was ended by a 404 on
\* its first call, and another whose admin notification send was.
C26_Witness ==
    \E r, q \in Req :
        /\ confirmSend[r].run.errs = <<RestError(404)>>
        /\ confirmSend[r].outcome = "rejected"
        /\ notifySend[q].run.errs = <<RestError(404)>>
        /\ notifySend[q].outcome = "resolved"
        /\ notifySend[q].run.calls = 1

\* The step of request r is the completion of a store call that failed:
\* a create that left the container as it was; a lookup for an email
\* without a record that did not go on to the count; a count that did not
\* go on to the create.
StoreCallFailed(r) ==
    \/ /\ req[r].pc = "create"
       /\ req'[r] # req[r]
       /\ contacts' = contacts
    \/ /\ req[r].pc = "wcreate"
       /\ req'[r] # req[r]
       /\ waitlistItems' = waitlistItems
    \/ /\ req[r].pc = "lookup"
       /\ req'[r].pc # "lookup"
       /\ \/ ExistingFor(r) = {} /\ req'[r].pc # "count"
          \/ ExistingFor(r) # {} /\ ~response'[r].success
    \/ /\ req[r].pc = "count"
       /\ req'[r].pc \notin {"count", "wcreate"}

\* C27: when a store call of a contact or waitlist request fails (the
\* duplicate lookup, the count or the create), the handler answers at once
\* with a failure (success = false, status 500 or 503, no record data) and
\* the request has made no email gateway call; a request answered that way
\* never makes one.
C27_StoreFailureNoEmail ==
    /\ [][\A r \in Req :
            StoreCallFailed(r) =>
                /\ req'[r].pc = "done"
                /\ response'[r].status \in {500, 503}
                /\ ~response'[r].success
                /\ ~response'[r].data.present
                /\ confirmSend'[r] = NoSend
                /\ notifySend'[r] = NoSend]_vars
    /\ [](\A r \in Req :
            (/\ req[r].pc = "done"
             /\ response[r].status \in {500, 503}
             /\ req[r].submission = NoSubmission) =>
                GatewayCalls(r) = 0)

\* C27 witness: a contact request whose create failed and a waitlist
\* request whose count failed, answered 503 and 500.
C27_Witness ==
    \E r, q \in Req :
        /\ req[r].kind = "contact" /\ req[r].pc = "done"
        /\ req[r].data.id # NoId /\ req[r].submission = NoSubmission
        /\ response[r].status = 503
        /\ req[q].kind = "waitlist" /\ req[q].pc = "done"
        /\ req[q].data.id # NoId /\ req[q].data.position = 0
        /\ response[q].status = 500

\* A send has a gateway call or a backoff sleep in progress.
InProgress(send) == send.run.st \in {"calling", "sleeping"}

\* C29: within one request the confirmation send and the admin
\* notification send never overlap: the admin notification is dispatched,
\* and so makes its first gateway call, on the step on which the
\* confirmation send returns successfully and not before, the two are never
\* in progress together, and a request whose confirmation send failed has
\* attempted no admin notification.
C29_SendsInSequence ==
    /\ [](\A r \in Req :
            /\ notifySend[r].outcome # "none" =>
                   /\ confirmSend[r].outcome = "resolved"
                   /\ confirmSend[r].run.st = "returned"
            /\ confirmSend[r].outcome = "rejected" => notifySend[r] = NoSend
            /\ ~(InProgress(confirmSend[r]) /\ InProgress(notifySend[r])))
    /\ [][\A r \in Req :
            (notifySend[r] = NoSend /\ notifySend'[r] # NoSend) =>
                /\ InProgress(confirmSend[r])
                /\ confirmSend'[r].run.st = "returned"
                /\ notifySend'[r].run.calls = 1]_vars

\* C29 witness: a request whose admin notification is in progress after its
\* confirmation send succeeded on a retry, next to a request whose
\* confirmation send failed.
C29_Witness ==
    \E r, q \in Req :
        /\ InProgress(notifySend[r])
        /\ confirmSend[r].run.st = "returned"
        /\ confirmSend[r].run.calls > 1
        /\ confirmSend[q].outcome = "rejected"
        /\ confirmSend[q].run.calls > 0

\* C30: the pre-jitter backoff delay min(initialDelay * multiplier^a,
\* maxDelay) is non-decreasing in the attempt number a and never exceeds
\* maxDelay; with the default configuration it is 2000, 4000, 8000 and 16000
\* for a = 1..4 and 30000 for every a >= 5.
C30_CappedDelayMonotone ==
    unitCall.fn = "retryWithBackoff" =>
        LET a == unitCall.query
            capped == unitCall.outcome[2]
        IN  /\ capped = SpecCapped(a)
            /\ capped <= MAX_DELAY_MS
            /\ \A b \in 1..a : cappedDelay(b) <= capped
            /\ a = 1 => capped = 2000
            /\ a = 2 => capped = 4000
            /\ a = 3 => capped = 8000
            /\ a = 4 => capped = 16000
            /\ a >= 5 => capped = 30000

\* C30 witness: the delay of attempt 5, where the cap first applies (the
\* uncapped delay is 32000), with the jitter at its upper end.
C30_Witness ==
    /\ unitCall.fn = "retryWithBackoff"
    /\ unitCall.query = 5
    /\ unitCall.outcome = <<32000, 30000>>
    /\ unitCall.result > 37000

\* C28: assuming every store call, gateway call and backoff wait of a
\* request eventually completes, every contact and waitlist request that
\* has been received eventually returns its response, and returns exactly
\* one (a response given stays as it is until the slot takes a new
\* invocation); no request is aborted in the middle of its retries (a
\* handler that has returned has no confirmation send in progress, and a
\* send in progress eventually ends); a request makes at most MAX_RETRIES
\* gateway calls for the confirmation and at most MAX_RETRIES for the admin
\* notification.
C28_EveryRequestResponds ==
    /\ [](\A r \in Req :
            /\ confirmSend[r].run.calls <= MAX_RETRIES
            /\ notifySend[r].run.calls <= MAX_RETRIES
            /\ req[r].pc = "done" =>
                   /\ response[r] # NoResponse
                   /\ ~InProgress(confirmSend[r]))
    /\ [][\A r \in Req :
            (response[r] # NoResponse
                /\ ~(Available(r) /\ served' = served + 1)) =>
                    response'[r] = response[r]]_vars
    /\ \A r \in Req :
          /\ (req[r].pc \notin {"idle", "done"})
                ~> (req[r].pc = "done" /\ response[r] # NoResponse)
          /\ (InProgress(confirmSend[r]) \/ InProgress(notifySend[r]))
                ~> (~InProgress(confirmSend[r]) /\ ~InProgress(notifySend[r]))

\* C28 witness: a waitlist request has been answered after its admin
\* notification used up all its attempts, next to a contact request
\* answered after its create failed.
C28_Witness ==
    \E r, q \in Req :
        /\ req[r].kind = "waitlist" /\ req[r].pc = "done"
        /\ notifySend[r].run.st = "thrown"
        /\ notifySend[r].run.calls = MAX_RETRIES
        /\ response[r].success
        /\ req[q].kind = "contact" /\ req[q].pc = "done"
        /\ response[q].status = 500
        /\ req[q].submission = NoSubmission

\* C31: when waitlist signups run one after another (no two overlap) and no
\* record's status changes, the records persisted have the positions 1, 2,
\* ..., n in creation order, without duplicates and without gaps: the i-th
\* record of the container is at position i, whatever store calls and
\* confirmation sends failed in between, and the records have pairwise
\* distinct emails.
C31_SequentialPositionsDense ==
    /\ \A i \in 1..Len(waitlistItems) :
          /\ waitlistItems[i].position = i
          /\ waitlistItems[i].status = "active"
    /\ Distinct([i \in 1..Len(waitlistItems) |-> waitlistItems[i].email])

\* C31 witness: three signups with three different emails have been
\* persisted one after another.
C31_Witness ==
    /\ Len(waitlistItems) = MaxSignups
    /\ waitlistItems[MaxSignups].position = MaxSignups
    /\ req[1].pc = "done"

\* What the specification accepts of a request: a well-formed address, for
\* a contact a non-empty name of at most 100 characters and a non-empty
\* message of at most 2000, for a signup no name or one of at most 100.
WellFormedEmails == {"jane@x.com", "Jane@X.com", "bob@x.com", "amy@x.com"}

AcceptedIsValid(q) ==
    /\ q.rawEmail \in WellFormedEmails
    /\ q.kind = "contact" =>
          /\ q.data.name \notin {"", LongName, LongNamePrefix}
          /\ q.data.message \notin {"", LongMessage, LongMessagePrefix}
    /\ q.kind = "waitlist" =>
          q.data.name \notin {"", LongName, LongNamePrefix}

\* C32: a contact or waitlist request that fails input validation is
\* answered 400 with success = false, and causes no store operation and no
\* email gateway call.  When an invocation begins, either it is answered
\* 400 at once, with the containers untouched, no id generated and no send
\* entered, or the body it goes on with is valid; and an invocation
\* answered 400 is over and has called the gateway zero times.
C32_InvalidRequestIs400 ==
    /\ [][\A r \in Req :
            (SlotFree(r) /\ served' = served + 1) =>
               \/ /\ response'[r].status = 400
                  /\ ~response'[r].success
                  /\ req'[r].pc = "done"
                  /\ contacts' = contacts
                  /\ waitlistItems' = waitlistItems
                  /\ nextUuid' = nextUuid
                  /\ confirmSend'[r] = NoSend
                  /\ notifySend'[r] = NoSend
               \/ /\ response'[r] = NoResponse
                  /\ req'[r].pc \in {"create", "lookup"}
                  /\ AcceptedIsValid(req'[r])]_vars
    /\ [](\A r \in Req :
            response[r].status = 400 =>
               /\ ~response[r].success
               /\ req[r].pc = "done"
               /\ GatewayCalls(r) = 0
               /\ confirmSend[r] = NoSend
               /\ notifySend[r] = NoSend)

\* C32 witness: a request with an invalid body has been answered 400 and
\* nothing has been stored or sent.
C32_Witness ==
    /\ response[1] = ValidationFailed
    /\ req[1].pc = "done"
    /\ req[1].kind = "contact"
    /\ contacts = <<>>
    /\ waitlistItems = <<>>
    /\ GatewayCalls(1) = 0

\* The waitlist records of the email request r signs up are all past the
\* status "active": notified or converted.
OnlyInactiveFor(r) ==
    /\ ExistingFor(r) # {}
    /\ \A x \in ExistingFor(r) : x.status \in {"notified", "converted"}

\* C33: the waitlist duplicate check matches on email alone, regardless of
\* status.  A signup whose email has only records with status notified or
\* converted when its lookup completes creates no record, generates no id
\* and starts no send, and, unless the lookup itself fails, is answered
\* 'already on the waitlist' (200, success = true) with the id, email and
\* position of such a record; so the store never holds an active record
\* next to a notified or converted one of the same email.
C33_DuplicateCheckIgnoresStatus ==
    /\ [][\A r \in Req :
            (req[r].pc = "lookup" /\ req'[r].pc # "lookup"
               /\ OnlyInactiveFor(r)) =>
                /\ waitlistItems' = waitlistItems
                /\ nextUuid' = nextUuid
                /\ confirmSend'[r] = NoSend /\ notifySend'[r] = NoSend
                /\ req'[r].pc = "done"
                /\ \/ response'[r].status \in {500, 503}
                   \/ \E x \in ExistingFor(r) :
                        /\ x.status # "active"
                        /\ response'[r] = AlreadyOnWaitlist(x)
                        /\ response'[r].status = 200
                        /\ response'[r].success
                        /\ response'[r].data.submissionId = x.id
                        /\ response'[r].data.position = x.position]_vars
    /\ [](\A i, j \in 1..Len(waitlistItems) :
            (waitlistItems[i].email = waitlistItems[j].email
               /\ waitlistItems[i].status # "active") =>
                  waitlistItems[j].status # "active" \/ j < i)

\* C33 witness: a signup for the address of a converted record has been
\* answered with that record, and the store holds no active record.
C33_Witness ==
    /\ req[1].kind = "waitlist"
    /\ req[1].pc = "done"
    /\ req[1].rawEmail = "Jane@X.com"
    /\ response[1].success
    /\ response[1].data.submissionId = MkId("waitlist", 0 - 1)
    /\ response[1].data.position = 1
    /\ Len(waitlistItems) = 1
    /\ waitlistItems[1].status = "converted"
    /\ waitlistItems[1].email = "jane@x.com"

\* The retry runs of the state by the send that owns them.
RunIds == {"confirm", "notify"} \X Req

RunOf(confirm, notify, id) ==
    IF id[1] = "confirm" THEN confirm[id[2]].run ELSE notify[id[2]].run

\* What C34 holds of the step that takes one retry run from run to next:
\* its counters move only by its own awaits (an attempt of its own failed
\* or returned, or its own sleep ended), or the run is a new one.
OwnStep(run, next) ==
    \/ next = run
    \/ next \in {NoRun, RetryStart}
    \/ /\ run.st = "calling"
       /\ next.attempt = run.attempt
       /\ next.calls = run.calls
       /\ Len(next.errs) \in {Len(run.errs), Len(run.errs) + 1}
    \/ /\ run.st = "sleeping"
       /\ next = RetryOnWake(run)

\* A run in progress (between its entry and its return or throw).
Running(run) == run.st \in {"calling", "sleeping"}

\* C34: retry state is private to each send.  The attempt number of a run
\* counts the invocations of that run alone (attempt = calls, one more than
\* the failures it has seen while an attempt is in flight), every run that
\* gives up on retryable failures has made all MAX_RETRIES attempts, whatever
\* failed in the other sends, and a step that advances one run in progress
\* leaves every other run in progress as it is: a step changes the runs only
\* by their own awaits, and at most one run already in progress per step.
C34_RetryStatePrivate ==
    /\ [](\A run \in Runs :
            /\ run.st # "none" =>
                   /\ run.attempt = run.calls
                   /\ run.attempt \in 1..MAX_RETRIES
            /\ run.st = "calling" => Len(run.errs) = run.attempt - 1
            /\ run.st = "sleeping" => Len(run.errs) = run.attempt
            /\ (run.st = "thrown" /\ AllRetryable(run.errs)) =>
                   /\ run.calls = MAX_RETRIES
                   /\ Len(run.errs) = MAX_RETRIES)
    /\ [][/\ \A id \in RunIds :
               OwnStep(RunOf(confirmSend, notifySend, id),
                       RunOf(confirmSend', notifySend', id))
          /\ \A a, b \in RunIds :
               (/\ a # b
                /\ Running(RunOf(confirmSend, notifySend, a))
                /\ Running(RunOf(confirmSend, notifySend, b))
                /\ RunOf(confirmSend', notifySend', a)
                      # RunOf(confirmSend, notifySend, a)) =>
                   RunOf(confirmSend', notifySend', b)
                      = RunOf(confirmSend, notifySend, b)]_vars

\* C34 witness: the fire-and-forget admin notification of one request is on
\* its second attempt after one failure while the confirmation send of a
\* concurrent request is on its third after two failures of its own.
C34_Witness ==
    /\ notifySend[1].run.st = "calling"
    /\ notifySend[1].run.attempt = 2
    /\ Len(notifySend[1].run.errs) = 1
    /\ confirmSend[2].run.st = "calling"
    /\ confirmSend[2].run.attempt = MAX_RETRIES
    /\ Len(confirmSend[2].run.errs) = MAX_RETRIES - 1

\* C35: in every admin stats response, contacts.total equals contacts.new +
\* contacts.read + contacts.replied, even when contact submissions are
\* created while the stats request runs.  results holds the values of the
\* stats calls in the order they are awaited: the total first, the waitlist
\* count second, then the numbers of new, read and replied contacts.
C35_TotalIsSum ==
    (admin.pc = "done" /\ admin.action = "stats" /\ admin.status = 200) =>
        admin.results[1]
            = admin.results[3] + admin.results[4] + admin.results[5]
====
